---- MODULE Spec2Model ----
(***************************************************************************)
(* Multi-annotator label conflict detection and resolution.                *)
(*                                                                         *)
(* The repository holds four independent engines that read the same kind   *)
(* of ticket (id, text, annotations):                                      *)
(*   CD_*    src/conflict_detector.py         class ConflictDetector       *)
(*   core_*  src/conflict_detector/core.py    package conflict_detector    *)
(*   tc_*    src/src/tickets_conflict/logic.py                             *)
(*   cr_*    src/src/conflict_resolver/{detector,resolver,main}.py         *)
(*                                                                         *)
(* Texts are TLA+ strings, keyword tests are real substring tests on the   *)
(* lower-cased text, Counter keeps insertion order, and most_common(1)     *)
(* returns the first key that attains the largest count.                   *)
(***************************************************************************)
EXTENDS Integers, Sequences, FiniteSets, TLC

VARIABLES
    text,               \* the text of the ticket handed to a pipeline
    annotations,        \* its annotations
    out,                \* what the pipeline returned
    dataset,            \* process_dataset: the lines of the input file
    conflicts_only,     \* process_dataset: the conflicts_only argument
    detailed_analysis,  \* ConflictDetector.detailed_analysis
    pos,                \* process_dataset: the number of lines read
    results,            \* process_dataset: the list results
    stats,              \* process_dataset: the dict stats
    output,             \* process_dataset: the output file, None until written
    pc                  \* where process_dataset stands

vars == <<text, annotations, out,
          dataset, conflicts_only, detailed_analysis, pos, results, stats, output, pc>>

ticketVars == <<text, annotations, out>>
datasetVars ==
    <<dataset, conflicts_only, detailed_analysis, pos, results, stats, output, pc>>

(***************************************************************************)
(* Bounds of the model.                                                    *)
(***************************************************************************)
MaxAnn == 3        \* longest annotation list of a ticket
MaxTickets == 3    \* longest input file handed to process_dataset
MaxRawAnn == 2     \* longest annotation list of a raw JSON record
MaxCalls == 3      \* most resolver calls made in one run of a process

(***************************************************************************)
(* The vocabulary the tickets are drawn from.                              *)
(***************************************************************************)
Intents == {"bug_report", "billing_issue", "subscription_issue"}
Urgencies == {"critical", "high", "medium"}

Texts ==
    { "",
      "App crashes during payment transaction.",
      "I want a refund but the app crashed.",
      "I want a refund but the app crashed during payment.",
      "URGENT: app crash on the payment page",
      "My subscription did not renew",
      "the item i got is not the one i ordered",
      "Payment failed due to network error.",
      "Please refund my payment immediately" }

(***************************************************************************)
(* Python values.                                                          *)
(***************************************************************************)
\* Optional[T]: None is the empty tuple, a value v is <<v>>.
None == <<>>
Some(v) == <<v>>

Range(s) == {s[i] : i \in DOMAIN s}

SeqsUpTo(S, n) == UNION {[1..k -> S] : k \in 0..n}

Max(S) == CHOOSE m \in S : \A x \in S : x <= m

\* sep.join(parts)
RECURSIVE Join(_, _)
Join(parts, sep) ==
    IF parts = <<>> THEN ""
    ELSE IF Len(parts) = 1 THEN parts[1]
    ELSE parts[1] \o sep \o Join(Tail(parts), sep)

\* k in t, for strings
Contains(k, t) ==
    \E i \in 1..(Len(t) - Len(k) + 1) : SubSeq(t, i, i + Len(k) - 1) = k

UpperCase == "ABCDEFGHIJKLMNOPQRSTUVWXYZ"
LowerCase == "abcdefghijklmnopqrstuvwxyz"

\* the lower-case letter of each upper-case letter
LowerOf ==
    [c \in {SubSeq(UpperCase, i, i) : i \in 1..Len(UpperCase)} |->
        LET i == CHOOSE j \in 1..Len(UpperCase) : SubSeq(UpperCase, j, j) = c
        IN  SubSeq(LowerCase, i, i)]

LowerChar(c) == IF c \in DOMAIN LowerOf THEN LowerOf[c] ELSE c

\* str.lower()
RECURSIVE Lower(_)
Lower(s) ==
    IF s = "" THEN ""
    ELSE LowerChar(SubSeq(s, 1, 1)) \o Lower(SubSeq(s, 2, Len(s)))

\* len(s.split()): the number of maximal runs of non-blank characters
WordCount(s) ==
    Cardinality({i \in 1..Len(s) :
        /\ SubSeq(s, i, i) # " "
        /\ (i = 1 \/ SubSeq(s, i - 1, i - 1) = " ")})

(***************************************************************************)
(* collections.Counter over a list: a sequence of <<key, count>> in the    *)
(* order in which the keys were first seen.                                *)
(***************************************************************************)
Count(values, v) == Cardinality({i \in DOMAIN values : values[i] = v})

Keys(values) ==
    LET F[i \in 0..Len(values)] ==
            IF i = 0 THEN <<>>
            ELSE IF \E j \in 1..(i - 1) : values[j] = values[i]
                 THEN F[i - 1]
                 ELSE Append(F[i - 1], values[i])
    IN F[Len(values)]

Counter(values) ==
    LET ks == Keys(values)
    IN [i \in DOMAIN ks |-> <<ks[i], Count(values, ks[i])>>]

\* key in counter
InCounter(k, c) == \E i \in DOMAIN c : c[i][1] = k

\* counter[key]; a Counter answers 0 for a key it does not hold
CounterGet(c, k) ==
    IF InCounter(k, c)
    THEN c[CHOOSE i \in DOMAIN c : c[i][1] = k][2]
    ELSE 0

\* counter.most_common(1)[0]: the first item with the largest count.
\* Only defined for a non-empty counter (Python raises IndexError otherwise).
MostCommon1(c) ==
    LET m == Max({c[i][2] : i \in DOMAIN c})
        i == CHOOSE j \in DOMAIN c :
                 c[j][2] = m /\ \A h \in 1..(j - 1) : c[h][2] < m
    IN c[i]

\* repr of dict(counter), e.g. {'high': 2, 'medium': 1}
DictStr(c) ==
    "{" \o Join([i \in DOMAIN c |->
                    "'" \o c[i][1] \o "': " \o ToString(c[i][2])], ", ") \o "}"

\* round(100 * num / den): a percentage, or a 2-decimal value in hundredths.
\* No num/den with den <= 5 lies on a rounding tie.
Round100(num, den) == (200 * num + den) \div (2 * den)

(***************************************************************************)
(* Lexicons.  A dict is a sequence of <<key, value>> in source order, a    *)
(* list is a sequence.                                                     *)
(***************************************************************************)
\* the ambiguous lexicon with every phrase mapped to every category
ambiguous_keywords_any_intent ==
    << <<"network error", Intents>>,
       <<"payment failed", Intents>>,
       <<"app crashed", Intents>>,
       <<"app shows error", Intents>>,
       <<"subscription", Intents>>,
       <<"cancel", Intents>>,
       <<"locked", Intents>> >>

\* ConflictDetector.__init__
ambiguous_keywords ==
    << <<"network error", {"billing_issue", "bug_report"}>>,
       <<"payment failed", {"billing_issue", "bug_report"}>>,
       <<"app crashed", {"bug_report", "billing_issue"}>>,
       <<"app shows error", {"bug_report", "account_issue"}>>,
       <<"subscription", {"subscription_issue", "billing_issue"}>>,
       <<"cancel", {"subscription_issue", "account_issue"}>>,
       <<"locked", {"account_issue", "bug_report"}>> >>

mixed_indicators ==
    << <<"but", "contrasting elements">>,
       <<"and", "multiple aspects">>,
       <<"however", "contrasting elements">>,
       <<"while", "simultaneous issues">> >>

\* the keyword lists written inline in ConflictDetector.suggest_resolution
CD_failure_words == <<"crash", "error", "blank", "won't open", "failed to">>
CD_payment_words == <<"refund", "payment", "charged", "billing">>
CD_subscription_words == <<"subscription", "renew", "activate">>
CD_critical_words == <<"critical", "urgent", "immediately", "asap">>

technical_intents == {"bug_report", "account_issue"}
business_intents == {"billing_issue", "subscription_issue"}

\* conflict_detector/core.py.  The source spells one apostrophe of "won't"
\* as U+2019 (twice); it is written "~" here, a character no text holds.
core_INTENT_KEYWORDS ==
    << <<"bug_report", <<"crash", "crashes", "error", "bug", "fault", "failed",
                         "won't", "won~t", "blank", "freeze", "won t", "won~t">> >>,
       <<"billing_issue", <<"refund", "charged", "payment", "billing", "invoice",
                            "auto-renew", "auto renewal", "credit">> >>,
       <<"subscription_issue", <<"subscription", "cancel", "renew", "plan",
                                 "activate", "activated", "renewal">> >>,
       <<"account_issue", <<"account", "login", "password", "verification",
                            "locked", "unlock", "delete">> >>,
       <<"general_inquiry", <<"know", "policy", "phone", "return", "promotions",
                              "inquire", "when will", "what is">> >> >>

URGENCY_WEIGHTS == << <<"critical", 4>>, <<"high", 3>>, <<"medium", 2>>, <<"low", 1>> >>

URGENT_KEYWORDS ==
    << <<"critical", <<"crash", "crashes", "critical", "won't", "won t", "error">> >>,
       <<"high", <<"urgent", "asap", "immediately", "please", "failed",
                   "cannot", "can't">> >> >>

CONTRASTIVE_CUES == <<" but ", " however", " although", " yet ">>

\* tickets_conflict/logic.py
tc_INTENT_KEYWORDS ==
    << <<"bug_report", <<"crash", "error", "bug", "fail", "failed", "blank",
                         "won't open", "wont open", "can't open", "cannot open",
                         "not open", "won't load", "blank screen">> >>,
       <<"billing_issue", <<"payment", "refund", "charged", "billing", "invoice">> >>,
       <<"subscription_issue", <<"subscription", "renew", "auto-renew", "cancel",
                                 "benefits", "activated">> >>,
       <<"account_issue", <<"account", "login", "password", "verification",
                            "locked", "recover", "delete">> >>,
       <<"general_inquiry", <<"how", "what", "when", "know", "policy", "inquire",
                              "plan", "features", "promotions", "return">> >> >>

INTENT_PRIORITY ==
    <<"bug_report", "billing_issue", "subscription_issue", "account_issue",
      "general_inquiry">>
URGENCY_PRIORITY == <<"critical", "high", "medium", "low">>

URGENCY_KEYWORDS ==
    << <<"critical", <<"crash", "error", "failed", "critical", "blank",
                       "blank screen", "not open", "won't open", "cant open",
                       "can't open">> >>,
       <<"high", <<"urgent", "immediately", "please", "assist", "unlock",
                   "cannot", "can't", "wont", "won't">> >> >>

\* conflict_resolver/resolver.py
KEYWORD_INTENT_MAP ==
    << <<"refund", "billing_issue">>,
       <<"charged", "billing_issue">>,
       <<"payment", "billing_issue">>,
       <<"payment failed", "billing_issue">>,
       <<"payment page", "bug_report">>,
       <<"crash", "bug_report">>,
       <<"crashes", "bug_report">>,
       <<"error", "bug_report">>,
       <<"app", "bug_report">>,
       <<"subscription", "subscription_issue">>,
       <<"cancel subscription", "subscription_issue">>,
       <<"locked", "account_issue">>,
       <<"password", "account_issue">>,
       <<"login", "account_issue">>,
       <<"delete my account", "account_issue">>,
       <<"return", "general_inquiry">>,
       <<"return policy", "general_inquiry">>,
       <<"phone number", "general_inquiry">> >>

high_words ==
    <<"crash", "cannot", "cannot", "can't", "critical", "denied", "suddenly",
      "locked", "failure">>

\* every keyword of every lexicon
AllKeywords ==
    LET Firsts(d) == {d[i][1] : i \in DOMAIN d}
        Lists(d) == UNION {Range(d[i][2]) : i \in DOMAIN d}
    IN  Firsts(ambiguous_keywords) \cup Firsts(mixed_indicators)
        \cup Range(CD_failure_words) \cup Range(CD_payment_words)
        \cup Range(CD_subscription_words) \cup Range(CD_critical_words)
        \cup Lists(core_INTENT_KEYWORDS) \cup Lists(URGENT_KEYWORDS)
        \cup Range(CONTRASTIVE_CUES)
        \cup Lists(tc_INTENT_KEYWORDS) \cup Lists(URGENCY_KEYWORDS)
        \cup Firsts(KEYWORD_INTENT_MAP) \cup Range(high_words)

\* texts built around the keys of KEYWORD_INTENT_MAP: the key alone, and the
\* key inside a sentence
KeywordTexts ==
    {prefix \o KEYWORD_INTENT_MAP[i][1] \o suffix :
        i \in DOMAIN KEYWORD_INTENT_MAP, prefix \in {"", "The "}, suffix \in {"", " again", "!"}}
    \cup {"", "Hello"}

\* the keywords that occur in text.lower(), tabulated once per text
KeywordsIn == [t \in Texts \cup KeywordTexts |-> {k \in AllKeywords : Contains(k, Lower(t))}]

\* kw in text.lower()
InLower(kw, t) == kw \in KeywordsIn[t]

\* len(text.split()), tabulated once per text
Words == [t \in Texts |-> WordCount(t)]

\* any(word in text_lower for word in words)
AnyIn(words, t) == \E i \in DOMAIN words : InLower(words[i], t)

(***************************************************************************)
(* src/conflict_detector.py : class ConflictDetector                       *)
(***************************************************************************)
\* AnnotatorLabel.get_composite_label
get_composite_label(label) == label.intent \o "|" \o label.urgency

\* AnnotatorLabel.to_dict
to_dict(label) ==
    [annotator |-> label.annotator, label |-> label.intent \o "|" \o label.urgency]

\* ConflictDetector.extract_labels
extract_labels(anns) ==
    [i \in DOMAIN anns |->
        [annotator |-> anns[i].annotator,
         intent |-> anns[i].intent,
         urgency |-> anns[i].urgency]]

\* ConflictDetector.detect_conflict
CD_detect_conflict_and(labels) ==
    LET intents == [i \in DOMAIN labels |-> labels[i].intent]
        intent_counts == Counter(intents)
        has_intent_conflict == Len(intent_counts) > 1
        urgencies == [i \in DOMAIN labels |-> labels[i].urgency]
        urgency_counts == Counter(urgencies)
        has_urgency_conflict == Len(urgency_counts) > 1
    IN  [is_conflict |-> has_intent_conflict /\ has_urgency_conflict,
         conflict_details |->
            [intent_distribution |-> intent_counts,
             urgency_distribution |-> urgency_counts,
             has_intent_conflict |-> has_intent_conflict,
             has_urgency_conflict |-> has_urgency_conflict,
             total_annotators |-> Len(labels),
             unique_labels |->
                Cardinality({get_composite_label(labels[i]) : i \in DOMAIN labels})]]

CD_detect_conflict(labels) ==
    LET intents == [i \in DOMAIN labels |-> labels[i].intent]
        intent_counts == Counter(intents)
        has_intent_conflict == Len(intent_counts) > 1
        urgencies == [i \in DOMAIN labels |-> labels[i].urgency]
        urgency_counts == Counter(urgencies)
        has_urgency_conflict == Len(urgency_counts) > 1
    IN  [is_conflict |-> has_intent_conflict \/ has_urgency_conflict,
         conflict_details |->
            [intent_distribution |-> intent_counts,
             urgency_distribution |-> urgency_counts,
             has_intent_conflict |-> has_intent_conflict,
             has_urgency_conflict |-> has_urgency_conflict,
             total_annotators |-> Len(labels),
             unique_labels |->
                Cardinality({get_composite_label(labels[i]) : i \in DOMAIN labels})]]

\* analyze_conflict_cause whose urgency clause ignores the intent conflict
analyze_conflict_cause_urgency_always(t, labels, conflict_details) ==
    LET intents_in_labels == {labels[i].intent : i \in DOMAIN labels}
        hit == SelectSeq(ambiguous_keywords,
                   LAMBDA e : InLower(e[1], t) /\ e[2] \cap intents_in_labels # {})
        ambiguous_found == [i \in DOMAIN hit |-> hit[i][1]]
        ambiguous ==
            IF ambiguous_found # <<>>
            THEN <<"Ambiguous text: Contains terms like '"
                   \o Join(ambiguous_found, ", ")
                   \o "' which can be interpreted as multiple intent types">>
            ELSE <<>>
        mixed_found == SelectSeq(mixed_indicators, LAMBDA e : InLower(e[1], t))
        indicators == [i \in DOMAIN mixed_found |->
                          "'" \o mixed_found[i][1] \o "' (" \o mixed_found[i][2] \o ")"]
        mixed ==
            IF mixed_found # <<>>
            THEN <<"Mixed aspects: Text contains " \o Join(indicators, ", ")
                   \o ", indicating multiple simultaneous issues">>
            ELSE <<>>
        urgency_varies ==
            IF conflict_details.has_urgency_conflict
            THEN <<"Urgency assessment varies: Annotators disagreed on severity "
                   \o "(distribution: "
                   \o DictStr(conflict_details.urgency_distribution)
                   \o "), suggesting subjective urgency interpretation">>
            ELSE <<>>
        intent_dist == conflict_details.intent_distribution
        intents_str == Join([i \in DOMAIN intent_dist |->
                                intent_dist[i][1] \o "("
                                \o ToString(intent_dist[i][2]) \o ")"], ", ")
        has_technical == intents_in_labels \cap technical_intents # {}
        has_business == intents_in_labels \cap business_intents # {}
        intent_disagreement ==
            IF conflict_details.has_intent_conflict
            THEN IF has_technical /\ has_business
                 THEN <<"Intent classification ambiguity: Mixed technical and "
                        \o "business aspects (distribution: " \o intents_str
                        \o "), requiring clearer annotation guidelines "
                        \o "on prioritizing primary vs. secondary issues">>
                 ELSE <<"Intent disagreement: Annotators categorized differently "
                        \o "(distribution: " \o intents_str
                        \o "), suggesting need for clearer "
                        \o "intent definition guidelines">>
            ELSE <<>>
        brief ==
            IF Words[t] < 8
            THEN <<"Brief text (" \o ToString(Words[t])
                   \o " words): Limited context may lead to "
                   \o "varying interpretations of user intent and urgency">>
            ELSE <<>>
        found == ambiguous \o mixed \o urgency_varies \o intent_disagreement \o brief
        reasons ==
            IF found = <<>>
            THEN <<"Subjective interpretation: Annotators applied different "
                   \o "judgment criteria without clear textual ambiguity, "
                   \o "indicating possible need for standardized annotation "
                   \o "guidelines">>
            ELSE found
    IN  Join(reasons, " | ")

\* ConflictDetector.analyze_conflict_cause
analyze_conflict_cause(t, labels, conflict_details) ==
    LET intents_in_labels == {labels[i].intent : i \in DOMAIN labels}
        hit == SelectSeq(ambiguous_keywords,
                   LAMBDA e : InLower(e[1], t) /\ e[2] \cap intents_in_labels # {})
        ambiguous_found == [i \in DOMAIN hit |-> hit[i][1]]
        ambiguous ==
            IF ambiguous_found # <<>>
            THEN <<"Ambiguous text: Contains terms like '"
                   \o Join(ambiguous_found, ", ")
                   \o "' which can be interpreted as multiple intent types">>
            ELSE <<>>
        mixed_found == SelectSeq(mixed_indicators, LAMBDA e : InLower(e[1], t))
        indicators == [i \in DOMAIN mixed_found |->
                          "'" \o mixed_found[i][1] \o "' (" \o mixed_found[i][2] \o ")"]
        mixed ==
            IF mixed_found # <<>>
            THEN <<"Mixed aspects: Text contains " \o Join(indicators, ", ")
                   \o ", indicating multiple simultaneous issues">>
            ELSE <<>>
        urgency_varies ==
            IF conflict_details.has_urgency_conflict
               /\ ~conflict_details.has_intent_conflict
            THEN <<"Urgency assessment varies: Annotators disagreed on severity "
                   \o "(distribution: "
                   \o DictStr(conflict_details.urgency_distribution)
                   \o "), suggesting subjective urgency interpretation">>
            ELSE <<>>
        intent_dist == conflict_details.intent_distribution
        intents_str == Join([i \in DOMAIN intent_dist |->
                                intent_dist[i][1] \o "("
                                \o ToString(intent_dist[i][2]) \o ")"], ", ")
        has_technical == intents_in_labels \cap technical_intents # {}
        has_business == intents_in_labels \cap business_intents # {}
        intent_disagreement ==
            IF conflict_details.has_intent_conflict
            THEN IF has_technical /\ has_business
                 THEN <<"Intent classification ambiguity: Mixed technical and "
                        \o "business aspects (distribution: " \o intents_str
                        \o "), requiring clearer annotation guidelines "
                        \o "on prioritizing primary vs. secondary issues">>
                 ELSE <<"Intent disagreement: Annotators categorized differently "
                        \o "(distribution: " \o intents_str
                        \o "), suggesting need for clearer "
                        \o "intent definition guidelines">>
            ELSE <<>>
        brief ==
            IF Words[t] < 8
            THEN <<"Brief text (" \o ToString(Words[t])
                   \o " words): Limited context may lead to "
                   \o "varying interpretations of user intent and urgency">>
            ELSE <<>>
        found == ambiguous \o mixed \o urgency_varies \o intent_disagreement \o brief
        reasons ==
            IF found = <<>>
            THEN <<"Subjective interpretation: Annotators applied different "
                   \o "judgment criteria without clear textual ambiguity, "
                   \o "indicating possible need for standardized annotation "
                   \o "guidelines">>
            ELSE found
    IN  Join(reasons, " | ")

\* f"{conf:.0%}" for conf = num / den
Percent(num, den) == ToString(Round100(num, den)) \o "%"

\* ConflictDetector._build_resolution_explanation; a confidence is the pair
\* <<votes of the majority value, number of labels>>
build_resolution_explanation(intent, urgency, intent_conf, urgency_conf, reasoning) ==
    LET intent_part ==
            IF intent_conf[1] = intent_conf[2]
            THEN "Intent '" \o intent \o "' has unanimous agreement"
            ELSE "Intent '" \o intent \o "' selected by majority ("
                 \o Percent(intent_conf[1], intent_conf[2])
                 \o " confidence, votes: " \o DictStr(reasoning.intent_votes) \o ")"
        urgency_part ==
            IF urgency_conf[1] = urgency_conf[2]
            THEN "urgency '" \o urgency \o "' has unanimous agreement"
            ELSE "urgency '" \o urgency \o "' selected by majority ("
                 \o Percent(urgency_conf[1], urgency_conf[2])
                 \o " confidence, votes: " \o DictStr(reasoning.urgency_votes) \o ")"
        contextual ==
            IF reasoning.contextual_adjustment # None
            THEN <<"Contextual analysis: " \o reasoning.contextual_adjustment[1]>>
            ELSE <<>>
        urgency_analysis ==
            IF reasoning.urgency_adjustment # None
            THEN <<"Urgency analysis: " \o reasoning.urgency_adjustment[1]>>
            ELSE <<>>
        parts == <<intent_part, urgency_part>> \o contextual \o urgency_analysis
    IN  Join(parts, ". ") \o "."

\* the contextual analysis applied to unanimous intents as well
contextual_analysis_unguarded(intent_counts, majority_intent, intent_votes, total, t) ==
    LET low == 10 * intent_votes < 6 * total
    IN  IF TRUE
        THEN IF AnyIn(CD_failure_words, t)
             THEN IF InCounter("bug_report", intent_counts)
                  THEN <<Some("Technical failure keywords suggest bug_report"),
                         IF low THEN "bug_report" ELSE majority_intent>>
                  ELSE <<None, majority_intent>>
             ELSE IF AnyIn(CD_payment_words, t)
             THEN IF InCounter("billing_issue", intent_counts)
                  THEN <<Some("Payment-related keywords suggest billing_issue"),
                         IF low THEN "billing_issue" ELSE majority_intent>>
                  ELSE <<None, majority_intent>>
             ELSE IF AnyIn(CD_subscription_words, t)
             THEN IF InCounter("subscription_issue", intent_counts)
                  THEN <<Some("Subscription keywords suggest subscription_issue"),
                         IF low THEN "subscription_issue" ELSE majority_intent>>
                  ELSE <<None, majority_intent>>
             ELSE <<None, majority_intent>>
        ELSE <<None, majority_intent>>

\* the contextual analysis with the cutoff at 0.7
contextual_analysis_cutoff_07(intent_counts, majority_intent, intent_votes, total, t) ==
    LET low == 10 * intent_votes < 7 * total
    IN  IF intent_votes < total
        THEN IF AnyIn(CD_failure_words, t)
             THEN IF InCounter("bug_report", intent_counts)
                  THEN <<Some("Technical failure keywords suggest bug_report"),
                         IF low THEN "bug_report" ELSE majority_intent>>
                  ELSE <<None, majority_intent>>
             ELSE IF AnyIn(CD_payment_words, t)
             THEN IF InCounter("billing_issue", intent_counts)
                  THEN <<Some("Payment-related keywords suggest billing_issue"),
                         IF low THEN "billing_issue" ELSE majority_intent>>
                  ELSE <<None, majority_intent>>
             ELSE IF AnyIn(CD_subscription_words, t)
             THEN IF InCounter("subscription_issue", intent_counts)
                  THEN <<Some("Subscription keywords suggest subscription_issue"),
                         IF low THEN "subscription_issue" ELSE majority_intent>>
                  ELSE <<None, majority_intent>>
             ELSE <<None, majority_intent>>
        ELSE <<None, majority_intent>>

\* ConflictDetector.suggest_resolution, "Apply contextual analysis for
\* tie-breaking or low confidence": <<contextual_adjustment, intent>>.
\* confidence < 1.0 is votes < total, confidence < 0.6 is 10 * votes < 6 * total.
contextual_analysis(intent_counts, majority_intent, intent_votes, total, t) ==
    LET low == 10 * intent_votes < 6 * total
    IN  IF intent_votes < total
        THEN IF AnyIn(CD_failure_words, t)
             THEN IF InCounter("bug_report", intent_counts)
                  THEN <<Some("Technical failure keywords suggest bug_report"),
                         IF low THEN "bug_report" ELSE majority_intent>>
                  ELSE <<None, majority_intent>>
             ELSE IF AnyIn(CD_payment_words, t)
             THEN IF InCounter("billing_issue", intent_counts)
                  THEN <<Some("Payment-related keywords suggest billing_issue"),
                         IF low THEN "billing_issue" ELSE majority_intent>>
                  ELSE <<None, majority_intent>>
             ELSE IF AnyIn(CD_subscription_words, t)
             THEN IF InCounter("subscription_issue", intent_counts)
                  THEN <<Some("Subscription keywords suggest subscription_issue"),
                         IF low THEN "subscription_issue" ELSE majority_intent>>
                  ELSE <<None, majority_intent>>
             ELSE <<None, majority_intent>>
        ELSE <<None, majority_intent>>

\* the urgency adjustment applied to unanimous votes as well
urgency_adjustment_unguarded(majority_urgency, urgency_votes, total, t) ==
    IF AnyIn(CD_critical_words, t)
    THEN IF 10 * urgency_votes < 6 * total
         THEN <<Some("Critical keywords suggest high urgency"), "high">>
         ELSE <<None, majority_urgency>>
    ELSE IF InLower("crash", t) /\ InLower("payment", t)
    THEN <<Some("Payment system crash suggests critical urgency"), "critical">>
    ELSE <<None, majority_urgency>>

\* the urgency adjustment that forgets to record what it did
urgency_adjustment_silent(majority_urgency, urgency_votes, total, t) ==
    IF urgency_votes < total
    THEN IF AnyIn(CD_critical_words, t)
         THEN IF 10 * urgency_votes < 6 * total
              THEN <<None, "high">>
              ELSE <<None, majority_urgency>>
         ELSE IF InLower("crash", t) /\ InLower("payment", t)
         THEN <<None, "critical">>
         ELSE <<None, majority_urgency>>
    ELSE <<None, majority_urgency>>

\* ConflictDetector.suggest_resolution, "Adjust urgency based on critical
\* keywords": <<urgency_adjustment, urgency>>
urgency_adjustment(majority_urgency, urgency_votes, total, t) ==
    IF urgency_votes < total
    THEN IF AnyIn(CD_critical_words, t)
         THEN IF 10 * urgency_votes < 6 * total
              THEN <<Some("Critical keywords suggest high urgency"), "high">>
              ELSE <<None, majority_urgency>>
         ELSE IF InLower("crash", t) /\ InLower("payment", t)
         THEN <<Some("Payment system crash suggests critical urgency"), "critical">>
         ELSE <<None, majority_urgency>>
    ELSE <<None, majority_urgency>>

\* ConflictDetector.suggest_resolution, for a non-empty list of labels.
\* The optional keys of the reasoning dict are Optional fields; the rounded
\* confidences are in hundredths.
suggest_resolution(labels, t, conflict_details) ==
    LET total == Len(labels)
        intent_counts == Counter([i \in DOMAIN labels |-> labels[i].intent])
        urgency_counts == Counter([i \in DOMAIN labels |-> labels[i].urgency])
        majority_intent == MostCommon1(intent_counts)[1]
        majority_urgency == MostCommon1(urgency_counts)[1]
        intent_votes == CounterGet(intent_counts, majority_intent)
        urgency_votes == CounterGet(urgency_counts, majority_urgency)
        intent_adj ==
            contextual_analysis(intent_counts, majority_intent, intent_votes, total, t)
        urgency_adj == urgency_adjustment(majority_urgency, urgency_votes, total, t)
        reasoning0 ==
            [majority_intent |-> majority_intent,
             intent_votes |-> intent_counts,
             intent_confidence |-> Round100(intent_votes, total),
             majority_urgency |-> majority_urgency,
             urgency_votes |-> urgency_counts,
             urgency_confidence |-> Round100(urgency_votes, total),
             resolution_strategy |-> "majority_vote_with_contextual_analysis",
             contextual_adjustment |-> intent_adj[1],
             urgency_adjustment |-> urgency_adj[1]]
        explanation ==
            build_resolution_explanation(intent_adj[2], urgency_adj[2],
                <<intent_votes, total>>, <<urgency_votes, total>>, reasoning0)
    IN  [suggested_label |-> intent_adj[2] \o "|" \o urgency_adj[2],
         reasoning |-> [k \in DOMAIN reasoning0 \cup {"explanation"} |->
                          IF k = "explanation" THEN explanation ELSE reasoning0[k]]]

\* {**conflict_details, "resolution_reasoning": resolution_reasoning}
with_reasoning(conflict_details, resolution_reasoning) ==
    [k \in DOMAIN conflict_details \cup {"resolution_reasoning"} |->
        IF k = "resolution_reasoning" THEN resolution_reasoning ELSE conflict_details[k]]

\* analyze_sample that explains every sample, conflicting or not
analyze_sample_always_explains(sample, detailed) ==
    LET labels == extract_labels(sample.annotations)
        det == CD_detect_conflict(labels)
    IN  IF labels = <<>>
        THEN [raised |-> "IndexError", detected |-> det]
        ELSE LET res == suggest_resolution(labels, sample.text, det.conflict_details)
             IN  [raised |-> "",
                  detected |-> det,
                  id |-> sample.id,
                  text |-> sample.text,
                  labels |-> [i \in DOMAIN labels |-> to_dict(labels[i])],
                  is_conflict |-> det.is_conflict,
                  conflict_reason |->
                     Some(analyze_conflict_cause(sample.text, labels, det.conflict_details)),
                  suggested_label |-> Some(res.suggested_label),
                  conflict_details |->
                     IF detailed
                     THEN Some(with_reasoning(det.conflict_details, res.reasoning))
                     ELSE None,
                  resolution_reasoning |-> res.reasoning]

\* ConflictDetector.analyze_sample.  Counter.most_common(1)[0] raises
\* IndexError in suggest_resolution when the sample has no annotation.
\* Besides the fields of ConflictAnalysis the record keeps two locals of the
\* call: detected, what detect_conflict returned, and resolution_reasoning.
\* A nullable field is an Optional.
analyze_sample(sample, detailed) ==
    LET labels == extract_labels(sample.annotations)
        det == CD_detect_conflict(labels)
        formatted_labels == [i \in DOMAIN labels |-> to_dict(labels[i])]
        conflict_reason ==
            IF det.is_conflict
            THEN Some(analyze_conflict_cause(sample.text, labels, det.conflict_details))
            ELSE None
    IN  IF labels = <<>>
        THEN [raised |-> "IndexError", detected |-> det]
        ELSE LET res == suggest_resolution(labels, sample.text, det.conflict_details)
             IN  [raised |-> "",
                  detected |-> det,
                  id |-> sample.id,
                  text |-> sample.text,
                  labels |-> formatted_labels,
                  is_conflict |-> det.is_conflict,
                  conflict_reason |-> conflict_reason,
                  suggested_label |-> Some(res.suggested_label),
                  conflict_details |->
                     IF detailed
                     THEN Some(with_reasoning(det.conflict_details, res.reasoning))
                     ELSE None,
                  resolution_reasoning |-> res.reasoning]

(***************************************************************************)
(* Ordering of strings, as Python compares them (by code point).           *)
(***************************************************************************)
\* the characters of the values that get sorted, in code point order
CodePointOrder == "-0123456789ABCDEFGHIJKLMNOPQRSTUVWXYZ_abcdefghijklmnopqrstuvwxyz|"

CodeOf ==
    [c \in {SubSeq(CodePointOrder, i, i) : i \in 1..Len(CodePointOrder)} |->
        CHOOSE i \in 1..Len(CodePointOrder) : SubSeq(CodePointOrder, i, i) = c]

\* a < b for strings
RECURSIVE StrLess(_, _)
StrLess(a, b) ==
    IF b = "" THEN FALSE
    ELSE IF a = "" THEN TRUE
    ELSE LET x == CodeOf[SubSeq(a, 1, 1)]
             y == CodeOf[SubSeq(b, 1, 1)]
         IN  IF x # y THEN x < y
             ELSE StrLess(SubSeq(a, 2, Len(a)), SubSeq(b, 2, Len(b)))

\* sorted(S) for a set of strings
RECURSIVE Sorted(_)
Sorted(S) ==
    IF S = {} THEN <<>>
    ELSE LET m == CHOOSE x \in S : \A y \in S \ {x} : StrLess(x, y)
         IN  <<m>> \o Sorted(S \ {m})

\* dict.get(key, default) on a sequence of <<key, value>>
DictGet(d, k, default) ==
    IF \E i \in DOMAIN d : d[i][1] = k
    THEN d[CHOOSE i \in DOMAIN d : d[i][1] = k][2]
    ELSE default

(***************************************************************************)
(* src/conflict_detector/core.py and models.py                             *)
(***************************************************************************)
\* Annotation.label
label(ann) == ann.intent \o "|" \o ann.urgency

\* label.split("|", 1): the parts before and after the first "|"
RECURSIVE FirstBar(_, _)
FirstBar(l, i) == IF SubSeq(l, i, i) = "|" THEN i ELSE FirstBar(l, i + 1)

Split1(l) ==
    LET i == FirstBar(l, 1)
    IN  <<SubSeq(l, 1, i - 1), SubSeq(l, i + 1, Len(l))>>

\* split("|", 1) of every composite label and lower() of every urgency,
\* tabulated once
SplitLabel == [l \in {i \o "|" \o u : i \in Intents, u \in Urgencies} |-> Split1(l)]
LowerUrgency == [u \in Urgencies |-> Lower(u)]

\* the scores of a keyword dict: <<label, hits>> for the labels with a hit,
\* in dict order; a keyword listed twice counts twice
KeywordScores(mapping, t) ==
    LET hits(kws) == Cardinality({i \in DOMAIN kws : InLower(kws[i], t)})
        scored == SelectSeq(mapping, LAMBDA e : hits(e[2]) > 0)
    IN  [i \in DOMAIN scored |-> <<scored[i][1], hits(scored[i][2])>>]

\* _infer_intent_scores
infer_intent_scores(t) == KeywordScores(core_INTENT_KEYWORDS, t)

\* _infer_urgency_scores
infer_urgency_scores(t) == KeywordScores(URGENT_KEYWORDS, t)

\* both score dicts, tabulated once per text
TextScores ==
    [t \in Texts |-> [intent |-> infer_intent_scores(t),
                      urgency |-> infer_urgency_scores(t)]]

\* _is_contrastive
is_contrastive(t) == AnyIn(CONTRASTIVE_CUES, t)

\* is_conflict with the comparison off by one
core_is_conflict_off_by_one(ticket) ==
    Cardinality({label(ticket.annotations[i]) : i \in DOMAIN ticket.annotations}) >= 1

\* is_conflict
core_is_conflict(ticket) ==
    Cardinality({label(ticket.annotations[i]) : i \in DOMAIN ticket.annotations}) > 1

\* "k:v, k:v" of a score dict
ScoreStr(scores) ==
    Join([i \in DOMAIN scores |-> scores[i][1] \o ":" \o ToString(scores[i][2])], ", ")

\* _conflict_reason
conflict_reason(ticket, intents, urgencies) ==
    LET anns == ticket.annotations
        tally(field, S) ==
            LET vs == Sorted(S)
            IN  Join([i \in DOMAIN vs |->
                        vs[i] \o " ("
                        \o ToString(Cardinality({j \in DOMAIN anns : anns[j][field] = vs[i]}))
                        \o ")"], ", ")
        intent_part ==
            IF Cardinality(intents) > 1
            THEN <<"Intent disagreement: " \o tally("intent", intents)>>
            ELSE <<>>
        urgency_part ==
            IF Cardinality(urgencies) > 1
            THEN <<"Urgency disagreement: " \o tally("urgency", urgencies)>>
            ELSE <<>>
        intent_scores == TextScores[ticket.text].intent
        intent_cues ==
            IF Len(intent_scores) > 1
            THEN <<"Text cues multiple intents: " \o ScoreStr(intent_scores)>>
            ELSE <<>>
        urgency_scores == TextScores[ticket.text].urgency
        urgency_cues ==
            IF Len(urgency_scores) > 1
            THEN <<"Ambiguous urgency cues: " \o ScoreStr(urgency_scores)>>
            ELSE <<>>
        contrast ==
            IF is_contrastive(ticket.text)
            THEN <<"Contrasting language suggests mixed aspects">>
            ELSE <<>>
        found == intent_part \o urgency_part \o intent_cues \o urgency_cues \o contrast
        parts ==
            IF found = <<>>
            THEN <<"Labels differ but no obvious textual cues; "
                   \o "possible guideline inconsistency">>
            ELSE found
    IN  Join(parts, "; ")

\* 2 * _score_label(label, ...): the score is a multiple of 0.5
score_label2(l, counts, intent_scores, urgency_scores) ==
    LET parts == SplitLabel[l]
        intent == parts[1]
        urgency == parts[2]
    IN  2 * (CounterGet(counts, l) * 2)
        + 2 * DictGet(intent_scores, intent, 0)
        + 2 * DictGet(urgency_scores, LowerUrgency[urgency], 0)
        + DictGet(URGENCY_WEIGHTS, LowerUrgency[urgency], 0)

\* a < b for tuples of numbers of the same length
RECURSIVE TupleLess(_, _)
TupleLess(a, b) ==
    IF a = <<>> THEN FALSE
    ELSE IF a[1] # b[1] THEN a[1] < b[1]
    ELSE TupleLess(Tail(a), Tail(b))

\* round(1000 * num / den): a 3-decimal value in thousandths
Round1000(num, den) == (2000 * num + den) \div (2 * den)

\* suggest_label that reports the share of the majority label
core_suggest_label_majority_share(ticket) ==
    LET anns == ticket.annotations
        counts == Counter([i \in DOMAIN anns |-> label(anns[i])])
        majority == MostCommon1(counts)
        intent_scores == TextScores[ticket.text].intent
        urgency_scores == TextScores[ticket.text].urgency
        \* _key of every key of counts
        key == [i \in DOMAIN counts |->
                  <<score_label2(counts[i][1], counts, intent_scores, urgency_scores),
                    counts[i][2],
                    DictGet(URGENCY_WEIGHTS, LowerUrgency[SplitLabel[counts[i][1]][2]], 0)>>]
        \* max(counts.keys(), key=_key): the first key with the largest _key
        best == CHOOSE i \in DOMAIN counts :
                    /\ \A j \in DOMAIN counts : ~TupleLess(key[i], key[j])
                    /\ \A j \in 1..(i - 1) : TupleLess(key[j], key[i])
        best_label == counts[best][1]
        explanation_parts ==
            <<"Majority: " \o majority[1] \o " (" \o ToString(majority[2]) \o "/"
              \o ToString(Len(anns)) \o ")">>
            \o (IF best_label # majority[1]
                THEN <<"Adjusted by text cues towards " \o best_label>> ELSE <<>>)
            \o (IF intent_scores # <<>>
                THEN <<"Intent cues: " \o ScoreStr(intent_scores)>> ELSE <<>>)
            \o (IF urgency_scores # <<>>
                THEN <<"Urgency cues: " \o ScoreStr(urgency_scores)>> ELSE <<>>)
    IN  [label |-> best_label,
         resolution |->
            [majority_label |-> majority[1],
             confidence |-> Round1000(majority[2], Len(anns)),
             explanation |-> Join(explanation_parts, "; ")]]

\* suggest_label, for a ticket with at least one annotation
core_suggest_label(ticket) ==
    LET anns == ticket.annotations
        counts == Counter([i \in DOMAIN anns |-> label(anns[i])])
        majority == MostCommon1(counts)
        intent_scores == TextScores[ticket.text].intent
        urgency_scores == TextScores[ticket.text].urgency
        \* _key of every key of counts
        key == [i \in DOMAIN counts |->
                  <<score_label2(counts[i][1], counts, intent_scores, urgency_scores),
                    counts[i][2],
                    DictGet(URGENCY_WEIGHTS, LowerUrgency[SplitLabel[counts[i][1]][2]], 0)>>]
        \* max(counts.keys(), key=_key): the first key with the largest _key
        best == CHOOSE i \in DOMAIN counts :
                    /\ \A j \in DOMAIN counts : ~TupleLess(key[i], key[j])
                    /\ \A j \in 1..(i - 1) : TupleLess(key[j], key[i])
        best_label == counts[best][1]
        explanation_parts ==
            <<"Majority: " \o majority[1] \o " (" \o ToString(majority[2]) \o "/"
              \o ToString(Len(anns)) \o ")">>
            \o (IF best_label # majority[1]
                THEN <<"Adjusted by text cues towards " \o best_label>> ELSE <<>>)
            \o (IF intent_scores # <<>>
                THEN <<"Intent cues: " \o ScoreStr(intent_scores)>> ELSE <<>>)
            \o (IF urgency_scores # <<>>
                THEN <<"Urgency cues: " \o ScoreStr(urgency_scores)>> ELSE <<>>)
    IN  [label |-> best_label,
         resolution |->
            [majority_label |-> majority[1],
             confidence |-> Round1000(CounterGet(counts, best_label), Len(anns)),
             explanation |-> Join(explanation_parts, "; ")]]

\* process_tickets: the list of OutputSample, or the exception raised.
\* suggest_label raises IndexError (most_common(1)[0]) on a ticket that has
\* no annotation and is not filtered out.
RECURSIVE process_tickets(_, _)
process_tickets(tickets, only_conflicts) ==
    IF tickets = <<>> THEN [raised |-> "", outputs |-> <<>>]
    ELSE
    LET t == tickets[1]
        intents == {t.annotations[i].intent : i \in DOMAIN t.annotations}
        urgencies == {t.annotations[i].urgency : i \in DOMAIN t.annotations}
        conflict == core_is_conflict(t)
        rest == process_tickets(Tail(tickets), only_conflicts)
    IN  IF only_conflicts /\ ~conflict THEN rest
        ELSE IF t.annotations = <<>> THEN [raised |-> "IndexError", outputs |-> <<>>]
        ELSE IF rest.raised # "" THEN rest
        ELSE LET sug == core_suggest_label(t)
                 sample ==
                    [id |-> t.id,
                     text |-> t.text,
                     labels |-> [i \in DOMAIN t.annotations |->
                                    [annotator |-> t.annotations[i].annotator,
                                     label |-> label(t.annotations[i])]],
                     is_conflict |-> conflict,
                     conflict_reason |->
                        IF conflict THEN Some(conflict_reason(t, intents, urgencies))
                        ELSE None,
                     suggested_label |-> Some(sug.label),
                     resolution |-> Some(sug.resolution)]
             IN  [raised |-> "", outputs |-> <<sample>> \o rest.outputs]

(***************************************************************************)
(* src/src/tickets_conflict/logic.py                                       *)
(***************************************************************************)
\* _keyword_vote: a Counter in the order of the first hit, which is the
\* order of the mapping
keyword_vote(t, mapping) == KeywordScores(mapping, t)

\* both keyword votes, tabulated once per text
TextVotes ==
    [t \in Texts |-> [intent |-> keyword_vote(t, tc_INTENT_KEYWORDS),
                      urgency |-> keyword_vote(t, URGENCY_KEYWORDS)]]

\* detect_conflict
tc_detect_conflict(record) ==
    LET intents == {record.annotations[i].intent : i \in DOMAIN record.annotations}
        urgencies == {record.annotations[i].urgency : i \in DOMAIN record.annotations}
    IN  Cardinality(intents) > 1 \/ Cardinality(urgencies) > 1

\* repr of a list of strings, e.g. ['high', 'medium']
ListRepr(l) == "[" \o Join([i \in DOMAIN l |-> "'" \o l[i] \o "'"], ", ") \o "]"

\* analyze_conflict that asks for more than two distinct values
analyze_conflict_off_by_one(record) ==
    LET intents == {record.annotations[i].intent : i \in DOMAIN record.annotations}
        urgencies == {record.annotations[i].urgency : i \in DOMAIN record.annotations}
        intent_reason ==
            IF Cardinality(intents) > 2
            THEN <<"Annotators disagree on intent: " \o ListRepr(Sorted(intents))
                   \o ". Possible multiple aspects or ambiguous guidelines.">>
            ELSE <<>>
        urgency_reason ==
            IF Cardinality(urgencies) > 2
            THEN <<"Annotators disagree on urgency: " \o ListRepr(Sorted(urgencies))
                   \o ". Severity perception may differ due to ambiguous severity cues.">>
            ELSE <<>>
        reasons == intent_reason \o urgency_reason
    IN  IF reasons # <<>> THEN Some(Join(reasons, " ")) ELSE None

\* analyze_conflict: a string, or None when no reason was found
analyze_conflict(record) ==
    LET intents == {record.annotations[i].intent : i \in DOMAIN record.annotations}
        urgencies == {record.annotations[i].urgency : i \in DOMAIN record.annotations}
        intent_reason ==
            IF Cardinality(intents) > 1
            THEN <<"Annotators disagree on intent: " \o ListRepr(Sorted(intents))
                   \o ". Possible multiple aspects or ambiguous guidelines.">>
            ELSE <<>>
        urgency_reason ==
            IF Cardinality(urgencies) > 1
            THEN <<"Annotators disagree on urgency: " \o ListRepr(Sorted(urgencies))
                   \o ". Severity perception may differ due to ambiguous severity cues.">>
            ELSE <<>>
        reasons == intent_reason \o urgency_reason
    IN  IF reasons # <<>> THEN Some(Join(reasons, " ")) ELSE None

\* _majority_vote that never sees a tie
majority_vote_no_tie(values) ==
    <<MostCommon1(Counter(values))[1], FALSE>>

\* _majority_vote, for a non-empty list: <<top_label, tie>>
majority_vote(values) ==
    LET cnt == Counter(values)
        top == MostCommon1(cnt)
        tie == Cardinality({i \in DOMAIN cnt : cnt[i][2] = top[2]}) > 1
    IN  <<top[1], tie>>

\* the keyword fallback that takes the first category with a hit
resolve_with_keywords_first_hit(votes, priority, fallback) ==
    IF votes # <<>> THEN votes[1][1] ELSE fallback

\* _resolve_intent_with_keywords and _resolve_urgency_with_keywords: the two
\* bodies differ in the votes and in the priority list only
resolve_with_keywords(votes, priority, fallback) ==
    IF votes # <<>>
    THEN LET top_count == Max({votes[i][2] : i \in DOMAIN votes})
             candidates == {votes[i][1] :
                               i \in {j \in DOMAIN votes : votes[j][2] = top_count}}
         IN  IF \E i \in DOMAIN priority : priority[i] \in candidates
             THEN priority[CHOOSE i \in DOMAIN priority :
                              /\ priority[i] \in candidates
                              /\ \A j \in 1..(i - 1) : priority[j] \notin candidates]
             ELSE Sorted(candidates)[1]
    ELSE fallback

resolve_intent_with_keywords(t, fallback) ==
    resolve_with_keywords(TextVotes[t].intent, INTENT_PRIORITY, fallback)

resolve_urgency_with_keywords(t, fallback) ==
    resolve_with_keywords(TextVotes[t].urgency, URGENCY_PRIORITY, fallback)

\* suggest_label.  The arrow of the two "tie resolved" sentences (U+2192 in
\* the source) is written "->".
tc_suggest_label(record) ==
    LET anns == record.annotations
        all_intents == [i \in DOMAIN anns |-> anns[i].intent]
        all_urgencies == [i \in DOMAIN anns |-> anns[i].urgency]
        \* "if ann.get(...)" keeps the truthy values
        intents == SelectSeq(all_intents, LAMBDA v : v # "")
        urgencies == SelectSeq(all_urgencies, LAMBDA v : v # "")
        mi == IF intents # <<>> THEN majority_vote(intents) ELSE <<"", FALSE>>
        mu == IF urgencies # <<>> THEN majority_vote(urgencies) ELSE <<"", FALSE>>
        maj_intent == IF intents # <<>> THEN Some(mi[1]) ELSE None
        maj_urgency == IF urgencies # <<>> THEN Some(mu[1]) ELSE None
        tie_intent == mi[2]
        tie_urgency == mu[2]
        resolved_intent == resolve_intent_with_keywords(record.text, mi[1])
        resolved_urgency == resolve_urgency_with_keywords(record.text, mu[1])
        suggested_intent == IF tie_intent THEN Some(resolved_intent) ELSE maj_intent
        suggested_urgency == IF tie_urgency THEN Some(resolved_urgency) ELSE maj_urgency
        conflict == tc_detect_conflict(record)
        confidence ==
            IF tie_intent \/ tie_urgency THEN "low"
            ELSE IF conflict THEN "medium"
            ELSE "high"
        conf_reason ==
            IF ~conflict THEN "Unanimous across annotators."
            ELSE IF tie_urgency THEN "Urgency tie resolved heuristically."
            ELSE IF tie_intent THEN "Intent tie resolved heuristically."
            ELSE "Majority vote used; not unanimous."
        explanation_parts ==
            (IF tie_intent /\ resolved_intent # mi[1]
             THEN <<"Intent tie resolved via text keywords -> " \o resolved_intent \o ".">>
             ELSE <<>>)
            \o (IF tie_urgency /\ resolved_urgency # mu[1]
                THEN <<"Urgency tie resolved via text keywords -> "
                       \o resolved_urgency \o ".">>
                ELSE <<>>)
            \o (IF ~conflict
                THEN <<"No conflict detected; adopting unanimous labels.">>
                ELSE <<>>)
        joined == Join(explanation_parts, " ")
    IN  [intent |-> suggested_intent,
         urgency |-> suggested_urgency,
         majority_label |-> [intent |-> maj_intent, urgency |-> maj_urgency],
         confidence |-> confidence,
         confidence_reason |-> conf_reason,
         explanation |-> IF joined # "" THEN Some(joined) ELSE None]

\* process_record
process_record(record) ==
    [id |-> record.id,
     text |-> record.text,
     labels |-> [i \in DOMAIN record.annotations |->
                    [annotator |-> record.annotations[i].annotator,
                     intent |-> record.annotations[i].intent,
                     urgency |-> record.annotations[i].urgency,
                     label |-> "intent=" \o record.annotations[i].intent
                               \o ", urgency=" \o record.annotations[i].urgency]],
     is_conflict |-> tc_detect_conflict(record),
     conflict_reason |-> analyze_conflict(record),
     suggested_label |-> Some(tc_suggest_label(record))]

(***************************************************************************)
(* src/src/conflict_resolver/detector.py, resolver.py and main.py          *)
(***************************************************************************)
\* str.strip(), for blanks
RECURSIVE Strip(_)
Strip(s) ==
    IF s = "" THEN ""
    ELSE IF SubSeq(s, 1, 1) = " " THEN Strip(SubSeq(s, 2, Len(s)))
    ELSE IF SubSeq(s, Len(s), Len(s)) = " " THEN Strip(SubSeq(s, 1, Len(s) - 1))
    ELSE s

\* normalize_label
normalize_label(annotation) ==
    Strip(annotation.intent) \o "|" \o Strip(annotation.urgency)

\* extract_annotator_labels
extract_annotator_labels(sample) ==
    [i \in DOMAIN sample.annotations |->
        [annotator |-> sample.annotations[i].annotator,
         label |-> normalize_label(sample.annotations[i])]]

\* detector.detect_conflict
cr_detect_conflict(sample) ==
    LET anns == sample.annotations
        unique_intents == Sorted({anns[i].intent : i \in DOMAIN anns})
        unique_urgencies == Sorted({anns[i].urgency : i \in DOMAIN anns})
        intent_conflict == Len(unique_intents) > 1
        urgency_conflict == Len(unique_urgencies) > 1
    IN  [id |-> sample.id,
         text |-> sample.text,
         labels |-> extract_annotator_labels(sample),
         is_conflict |-> intent_conflict \/ urgency_conflict,
         intent_conflict |-> intent_conflict,
         urgency_conflict |-> urgency_conflict,
         unique_intents |-> unique_intents,
         unique_urgencies |-> unique_urgencies]

\* text_keyword_intent: the value of the first key, in dict order, that
\* occurs in the lower-cased text
text_keyword_intent(t) ==
    IF \E i \in DOMAIN KEYWORD_INTENT_MAP : InLower(KEYWORD_INTENT_MAP[i][1], t)
    THEN KEYWORD_INTENT_MAP[CHOOSE i \in DOMAIN KEYWORD_INTENT_MAP :
            /\ InLower(KEYWORD_INTENT_MAP[i][1], t)
            /\ \A j \in 1..(i - 1) : ~InLower(KEYWORD_INTENT_MAP[j][1], t)][2]
    ELSE "ambiguous"

\* "(freq/total)" of the reason strings
Tally(freq, total) == "(" \o ToString(freq) \o "/" \o ToString(total) \o ")"

\* suggest_intent, for a non-empty list.  freq / total >= 0.66 is
\* 100 * freq >= 66 * total, freq / total >= 0.5 is 2 * freq >= total.
\* The dash of the fallback reason (U+2014 in the source) is written "-".
suggest_intent(intents, t) ==
    LET ctr == Counter(intents)
        top == MostCommon1(ctr)
        most_common == top[1]
        freq == top[2]
        total == Len(intents)
        inferred == text_keyword_intent(t)
    IN  IF 100 * freq >= 66 * total
        THEN [final_intent |-> most_common, confidence |-> "high",
              reason |-> "Majority voting: '" \o most_common \o "' " \o Tally(freq, total)]
        ELSE IF 2 * freq >= total
        THEN [final_intent |-> most_common, confidence |-> "medium",
              reason |-> "Weak majority: '" \o most_common \o "' " \o Tally(freq, total)]
        ELSE IF inferred # "ambiguous"
        THEN [final_intent |-> inferred, confidence |-> "medium",
              reason |-> "No clear annotator majority; used keyword inference '"
                         \o inferred \o "' from text"]
        ELSE [final_intent |-> most_common, confidence |-> "low",
              reason |-> "No clear consensus and no keyword match - "
                         \o "low-confidence fallback to most common"]

\* suggest_urgency, for a non-empty list
suggest_urgency(urgencies, t) ==
    LET ctr == Counter(urgencies)
        top == MostCommon1(ctr)
        most_common == top[1]
        freq == top[2]
        total == Len(urgencies)
        low == AnyIn(high_words, t)
        final == IF InLower("crash", t) \/ InLower("critical", t)
                 THEN "critical" ELSE "high"
    IN  IF 100 * freq >= 66 * total
        THEN [final_urgency |-> most_common, confidence |-> "high",
              reason |-> "Majority voting: '" \o most_common \o "' " \o Tally(freq, total)]
        ELSE IF 2 * freq >= total
        THEN [final_urgency |-> most_common, confidence |-> "medium",
              reason |-> "Weak majority: '" \o most_common \o "' " \o Tally(freq, total)]
        ELSE IF low
        THEN [final_urgency |-> final, confidence |-> "medium",
              reason |-> "Mixed annotator urgencies; inferred '" \o final
                         \o "' from severity cues in text"]
        ELSE [final_urgency |-> most_common, confidence |-> "low",
              reason |-> "No clear consensus and no severity cues - "
                         \o "low-confidence fallback to most common"]

\* resolve, for a sample with at least one annotation
resolve(sample) ==
    LET anns == sample.annotations
        intent_out == suggest_intent([i \in DOMAIN anns |-> anns[i].intent], sample.text)
        urgency_out == suggest_urgency([i \in DOMAIN anns |-> anns[i].urgency], sample.text)
        confidence ==
            IF intent_out.confidence = "high" /\ urgency_out.confidence = "high"
            THEN "high"
            ELSE IF \/ "high" \in {intent_out.confidence, urgency_out.confidence}
                    \/ intent_out.confidence = "medium"
                    \/ urgency_out.confidence = "medium"
            THEN "medium"
            ELSE "low"
    IN  [final_label |-> intent_out.final_intent \o "|" \o urgency_out.final_urgency,
         final_intent |-> intent_out.final_intent,
         final_urgency |-> urgency_out.final_urgency,
         confidence |-> confidence,
         explanation |-> Join(<<intent_out.reason, urgency_out.reason>>, " ; "),
         intent_confidence |-> intent_out.confidence,
         urgency_confidence |-> urgency_out.confidence]

\* main.build_output_record.  Besides the fields of the output record, the
\* record keeps one local of the call: detected, what detect_conflict returned.
build_output_record(sample_raw) ==
    LET det == cr_detect_conflict(sample_raw)
        reasons ==
            (IF det.intent_conflict
             THEN <<"annotators disagreed on intent: " \o Join(det.unique_intents, ",")>>
             ELSE <<>>)
            \o (IF det.urgency_conflict
                THEN <<"annotators disagreed on urgency: "
                       \o Join(det.unique_urgencies, ",")>>
                ELSE <<>>)
        suggestion == resolve(sample_raw)
    IN  [id |-> det.id,
         text |-> det.text,
         labels |-> det.labels,
         is_conflict |-> det.is_conflict,
         conflict_reason |-> IF det.is_conflict THEN Some(Join(reasons, " ; ")) ELSE None,
         suggested_label |-> IF det.is_conflict THEN Some(suggestion.final_label) ELSE None,
         suggested_label_details |-> IF det.is_conflict THEN Some(suggestion) ELSE None,
         detected |-> det]

(***************************************************************************)
(* The tickets.                                                            *)
(***************************************************************************)
Annotator(i) == "ann_0" \o ToString(i)

AnnotationLists ==
    UNION {{[i \in 1..k |-> [annotator |-> Annotator(i),
                             intent |-> f[i][1],
                             urgency |-> f[i][2]]] :
               f \in [1..k -> Intents \X Urgencies]} : k \in 0..MaxAnn}

Idle == [engine |-> "idle"]

Sample == [id |-> "TEST-001", text |-> text, annotations |-> annotations]

(***************************************************************************)
(* One ticket, one pipeline: a ticket is handed to one of the four         *)
(* pipelines, which produces its output record (or raises).                *)
(***************************************************************************)
\* a key a dict does not hold yet is None
InitStats ==
    [total_samples |-> 0,
     conflict_samples |-> 0,
     no_conflict_samples |-> 0,
     intent_conflicts |-> 0,
     urgency_conflicts |-> 0,
     both_conflicts |-> 0,
     output_samples |-> None]

\* no input file is being processed
NoDataset ==
    /\ dataset = <<>>
    /\ conflicts_only = FALSE
    /\ detailed_analysis = TRUE
    /\ pos = 0
    /\ results = <<>>
    /\ stats = InitStats
    /\ output = None
    /\ pc = "ticket"

Init ==
    /\ text \in Texts
    /\ annotations \in AnnotationLists
    /\ out = Idle
    /\ NoDataset

\* ConflictDetector(detailed_analysis=True).analyze_sample(sample)
AnalyzeSample ==
    /\ pc = "ticket"
    /\ out = Idle
    /\ out' = [engine |-> "ConflictDetector", rec |-> analyze_sample(Sample, TRUE)]
    /\ UNCHANGED <<text, annotations>>
    /\ UNCHANGED datasetVars

\* conflict_detector.core.process_tickets([ticket], conflicts_only)
ProcessTickets ==
    /\ pc = "ticket"
    /\ out = Idle
    /\ \E only_conflicts \in BOOLEAN :
          out' = [engine |-> "core", only_conflicts |-> only_conflicts,
                  rec |-> process_tickets(<<Sample>>, only_conflicts)]
    /\ UNCHANGED <<text, annotations>>
    /\ UNCHANGED datasetVars

\* tickets_conflict.logic.process_record(record)
ProcessRecord ==
    /\ pc = "ticket"
    /\ out = Idle
    /\ out' = [engine |-> "tickets_conflict", rec |-> process_record(Sample)]
    /\ UNCHANGED <<text, annotations>>
    /\ UNCHANGED datasetVars

\* conflict_resolver.main.build_output_record(sample_raw)
BuildOutputRecord ==
    /\ pc = "ticket"
    /\ out = Idle
    /\ out' = [engine |-> "conflict_resolver", rec |-> build_output_record(Sample)]
    /\ UNCHANGED <<text, annotations>>
    /\ UNCHANGED datasetVars

Next ==
    \/ AnalyzeSample
    \/ ProcessTickets
    \/ ProcessRecord
    \/ BuildOutputRecord

Spec == Init /\ [][Next]_vars

(***************************************************************************)
(* ConflictDetector.process_dataset: one input file, read line by line.    *)
(***************************************************************************)
Ann(i, intent, urgency) == [annotator |-> Annotator(i), intent |-> intent, urgency |-> urgency]

\* the lines an input file is made of: text and annotations of a ticket
SampleLines ==
    { [text |-> "App crashes during payment transaction.",
       annotations |-> <<Ann(1, "bug_report", "high"), Ann(2, "bug_report", "high")>>],
      [text |-> "",
       annotations |-> <<Ann(1, "subscription_issue", "medium")>>],
      [text |-> "Payment failed due to network error.",
       annotations |-> <<Ann(1, "billing_issue", "high"), Ann(2, "bug_report", "high")>>],
      [text |-> "App crashes during payment transaction.",
       annotations |-> <<Ann(1, "bug_report", "high"), Ann(2, "bug_report", "medium"),
                         Ann(3, "bug_report", "medium")>>],
      [text |-> "I want a refund but the app crashed.",
       annotations |-> <<Ann(1, "billing_issue", "high"), Ann(2, "bug_report", "critical"),
                         Ann(3, "billing_issue", "high")>>] }

SampleId(i) == "TEST-00" \o ToString(i)

\* the input files: the i-th line carries the id TEST-00i
Datasets ==
    {[i \in DOMAIN lines |->
         [id |-> SampleId(i), text |-> lines[i].text, annotations |-> lines[i].annotations]] :
       lines \in SeqsUpTo(SampleLines, MaxTickets)}

\* ConflictAnalysis.to_dict
ConflictAnalysis_to_dict(analysis) ==
    [id |-> analysis.id,
     text |-> analysis.text,
     labels |-> analysis.labels,
     is_conflict |-> analysis.is_conflict,
     conflict_reason |-> analysis.conflict_reason,
     suggested_label |-> analysis.suggested_label,
     conflict_details |-> analysis.conflict_details]

InitDataset ==
    /\ text = ""
    /\ annotations = <<>>
    /\ out = Idle
    /\ dataset \in Datasets
    /\ conflicts_only \in BOOLEAN
    /\ detailed_analysis \in BOOLEAN
    /\ pos = 0
    /\ results = <<>>
    /\ stats = InitStats
    /\ output = None
    /\ pc = "read"

Bump(st, key, cond) == IF cond THEN st[key] + 1 ELSE st[key]

\* the filter with "or" in the place of "not ... or"
add_result_wrong_filter(res, analysis, only_conflicts) ==
    IF only_conflicts \/ analysis.is_conflict THEN Append(res, analysis) ELSE res

\* process_dataset, "Add to results based on filter"
add_result(res, analysis, only_conflicts) ==
    IF ~only_conflicts \/ analysis.is_conflict THEN Append(res, analysis) ELSE res

\* the counters of process_dataset after one analysed line
count_sample(st, analysis) ==
    [st EXCEPT
       !.total_samples = @ + 1,
       !.conflict_samples = Bump(st, "conflict_samples", analysis.is_conflict),
       !.no_conflict_samples = Bump(st, "no_conflict_samples", ~analysis.is_conflict),
       !.intent_conflicts = Bump(st, "intent_conflicts",
            /\ analysis.is_conflict
            /\ analysis.conflict_details # None
            /\ analysis.conflict_details[1].has_intent_conflict),
       !.urgency_conflicts = Bump(st, "urgency_conflicts",
            /\ analysis.is_conflict
            /\ analysis.conflict_details # None
            /\ analysis.conflict_details[1].has_urgency_conflict),
       !.both_conflicts = Bump(st, "both_conflicts",
            /\ analysis.is_conflict
            /\ analysis.conflict_details # None
            /\ analysis.conflict_details[1].has_intent_conflict
            /\ analysis.conflict_details[1].has_urgency_conflict)]

\* one iteration of "for line in f" of process_dataset
ProcessLine ==
    /\ pc = "read"
    /\ pos < Len(dataset)
    /\ \E analysis \in {analyze_sample(dataset[pos + 1], detailed_analysis)} :
          IF analysis.raised # ""
          THEN /\ pc' = "raised"
               /\ UNCHANGED <<pos, results, stats>>
          ELSE /\ stats' = count_sample(stats, analysis)
               /\ results' = add_result(results, analysis, conflicts_only)
               /\ pos' = pos + 1
               /\ pc' = pc
    /\ UNCHANGED <<dataset, conflicts_only, detailed_analysis, output>>
    /\ UNCHANGED ticketVars

\* the input is exhausted: write the results, count them, return stats
WriteResults ==
    /\ pc = "read"
    /\ pos = Len(dataset)
    /\ output' = Some([i \in DOMAIN results |-> ConflictAnalysis_to_dict(results[i])])
    /\ stats' = [stats EXCEPT !.output_samples = Some(Len(results))]
    /\ pc' = "done"
    /\ UNCHANGED <<dataset, conflicts_only, detailed_analysis, pos, results>>
    /\ UNCHANGED ticketVars

NextDataset ==
    \/ ProcessLine
    \/ WriteResults

SpecDataset == InitDataset /\ [][NextDataset]_vars

(***************************************************************************)
(* Raw JSON records, as json.loads returns them: a dict is a function on   *)
(* the keys that are present.  An annotation maps its keys to strings.  A  *)
(* sample maps "id" to a string, "text" and "annotations" to a JSON value: *)
(* None is null, <<v>> is the string or the list v.                        *)
(***************************************************************************)
AnnotationKeys == {"annotator", "intent", "urgency"}
SampleKeys == {"id", "text", "annotations"}

RawValues ==
    [annotator |-> {"ann_01"},
     intent |-> {"bug_report", "billing_issue"},
     urgency |-> {"high", "critical"}]

RawAnnotations ==
    UNION {{ann \in [K -> UNION {RawValues[k] : k \in AnnotationKeys}] :
                \A k \in K : ann[k] \in RawValues[k]} : K \in SUBSET AnnotationKeys}

RawAnnotationLists == SeqsUpTo(RawAnnotations, MaxRawAnn)

Restrict(d, K) == [k \in K |-> d[k]]

RawSamples ==
    {Restrict([id |-> "TEST-001", text |-> t, annotations |-> a], K) :
        K \in SUBSET SampleKeys,
        t \in {None, Some("")},
        a \in {None} \cup {Some(l) : l \in RawAnnotationLists}}

\* a record that is well formed, and a conflict
ValidSample ==
    [id |-> "TEST-000",
     text |-> Some("Payment failed due to network error."),
     annotations |-> Some(<<Ann(1, "billing_issue", "high"), Ann(2, "bug_report", "high")>>)]

\* the files: the raw record alone, or after a well-formed one
RawDatasets == {<<s>> : s \in RawSamples} \cup {<<ValidSample, s>> : s \in RawSamples}

\* dict.get(key)
Get(d, key) == IF key \in DOMAIN d THEN Some(d[key]) ELSE None

\* validate_dataset_format, from the i-th sample on (enumerate counts from 0)
RECURSIVE validate_from(_, _)
validate_from(data, i) ==
    IF i > Len(data)
    THEN [ok |-> TRUE, message |-> "Dataset format is valid"]
    ELSE LET sample == data[i]
             n == ToString(i - 1)
         IN  IF ~(SampleKeys \subseteq DOMAIN sample)
             THEN [ok |-> FALSE,
                   message |-> "Sample " \o n \o " missing required fields"]
             ELSE IF sample.annotations = None
             THEN [ok |-> FALSE,
                   message |-> "Sample " \o n \o " annotations must be a list"]
             ELSE IF Len(sample.annotations[1]) = 0
             THEN [ok |-> FALSE,
                   message |-> "Sample " \o n \o " has no annotations"]
             ELSE IF \E j \in DOMAIN sample.annotations[1] :
                        ~(AnnotationKeys \subseteq DOMAIN sample.annotations[1][j])
             THEN LET j == CHOOSE j \in DOMAIN sample.annotations[1] :
                              /\ ~(AnnotationKeys \subseteq DOMAIN sample.annotations[1][j])
                              /\ \A k \in 1..(j - 1) :
                                    AnnotationKeys \subseteq DOMAIN sample.annotations[1][k]
                  IN  [ok |-> FALSE,
                       message |-> "Sample " \o n \o ", annotation " \o ToString(j - 1)
                                   \o " missing required fields"]
             ELSE validate_from(data, i + 1)

\* validate_dataset_format
validate_dataset_format(data) == validate_from(data, 1)

\* ConflictDetector.analyze_sample on a raw record: sample["id"],
\* sample["text"], sample["annotations"] and ann["annotator"], ann["intent"],
\* ann["urgency"] raise KeyError on an absent key, "for ann in None" raises
\* TypeError, text.lower() raises AttributeError on a null text.  The text is
\* only read for a conflict (analyze_conflict_cause) or a confidence below 1.0
\* (suggest_resolution), that is for a conflict.
analyze_sample_json(sample, detailed) ==
    IF ~(SampleKeys \subseteq DOMAIN sample)
    THEN [raised |-> "KeyError"]
    ELSE IF sample.annotations = None
    THEN [raised |-> "TypeError"]
    ELSE IF \E i \in DOMAIN sample.annotations[1] :
                ~(AnnotationKeys \subseteq DOMAIN sample.annotations[1][i])
    THEN [raised |-> "KeyError"]
    ELSE LET anns == sample.annotations[1]
         IN  IF sample.text = None
             THEN IF CD_detect_conflict(extract_labels(anns)).is_conflict
                  THEN [raised |-> "AttributeError"]
                  ELSE IF anns = <<>>
                  THEN analyze_sample([id |-> sample.id, text |-> "",
                                       annotations |-> anns], detailed)
                  ELSE [analyze_sample([id |-> sample.id, text |-> "",
                                        annotations |-> anns], detailed)
                            EXCEPT !.text = None]
             ELSE analyze_sample([id |-> sample.id, text |-> sample.text[1],
                                  annotations |-> anns], detailed)

(***************************************************************************)
(* main: the file is loaded, validated, and handed to the detector when it *)
(* is accepted.                                                            *)
(***************************************************************************)
InitBoundary ==
    /\ text = ""
    /\ annotations = <<>>
    /\ out = Idle
    /\ dataset \in RawDatasets
    /\ conflicts_only = FALSE
    /\ detailed_analysis \in BOOLEAN
    /\ pos = 0
    /\ results = <<>>
    /\ stats = InitStats
    /\ output = None
    /\ pc = "raw"

\* validate_dataset of main
ValidateDataset ==
    /\ pc = "raw"
    /\ out' = [engine |-> "validate_dataset_format", rec |-> validate_dataset_format(dataset)]
    /\ pc' = IF validate_dataset_format(dataset).ok THEN "accepted" ELSE "rejected"
    /\ UNCHANGED <<text, annotations, dataset, conflicts_only, detailed_analysis,
                   pos, results, stats, output>>

\* the accepted records reach analyze_sample, one after the other
AnalyzeAccepted ==
    /\ pc = "accepted"
    /\ results' = [i \in DOMAIN dataset |-> analyze_sample_json(dataset[i], detailed_analysis)]
    /\ pc' = "analysed"
    /\ UNCHANGED <<text, annotations, out, dataset, conflicts_only, detailed_analysis,
                   pos, stats, output>>

\* the record the detectors are handed: the last one of the file
RawSample == dataset[Len(dataset)]

\* a dimension of raw annotations, as [ann.get(field) for ann in annotations]
GetAll(anns, field) == {Get(anns[i], field) : i \in DOMAIN anns}

\* sorted(values) of Python 3 compares None with a string, and raises
\* TypeError, exactly when the collection holds None and something else
SortedRaises(values) == None \in values /\ Cardinality(values) > 1

\* an annotation with the absent fields filled in: used where the code never
\* looks at the value of a field that is absent from every annotation
Filled(ann) ==
    [annotator |-> IF "annotator" \in DOMAIN ann THEN ann.annotator ELSE "None",
     intent |-> IF "intent" \in DOMAIN ann THEN ann.intent ELSE "None",
     urgency |-> IF "urgency" \in DOMAIN ann THEN ann.urgency ELSE "None"]

\* Ticket.model_validate(data): every field of Ticket and of Annotation is a
\* required str (or list), so an absent or null value is a ValidationError
model_validate(data) ==
    IF \/ ~(SampleKeys \subseteq DOMAIN data)
       \/ data.text = None
       \/ data.annotations = None
    THEN [raised |-> "ValidationError"]
    ELSE IF \E i \in DOMAIN data.annotations[1] :
                ~(AnnotationKeys \subseteq DOMAIN data.annotations[1][i])
    THEN [raised |-> "ValidationError"]
    ELSE [raised |-> "",
          ticket |-> [id |-> data.id, text |-> data.text[1],
                      annotations |-> data.annotations[1]]]

\* core.load_jsonl followed by core.is_conflict
core_is_conflict_json(data) ==
    LET loaded == model_validate(data)
    IN  IF loaded.raised # "" THEN loaded
        ELSE [raised |-> "", is_conflict |-> core_is_conflict(loaded.ticket)]

\* record.get("annotations", []): the list, [] for an absent key, None (that
\* no loop can iterate) for null
GetAnnotations(record) ==
    IF "annotations" \in DOMAIN record THEN record.annotations ELSE Some(<<>>)

\* tickets_conflict.detect_conflict on a raw record
tc_detect_conflict_json(record) ==
    IF GetAnnotations(record) = None
    THEN [raised |-> "TypeError"]
    ELSE LET anns == GetAnnotations(record)[1]
         IN  [raised |-> "",
              is_conflict |-> \/ Cardinality(GetAll(anns, "intent")) > 1
                              \/ Cardinality(GetAll(anns, "urgency")) > 1]

\* tickets_conflict.analyze_conflict on a raw record: sorted(intents) and
\* sorted(urgencies) are evaluated for a dimension with several values
analyze_conflict_json(record) ==
    IF GetAnnotations(record) = None
    THEN [raised |-> "TypeError"]
    ELSE LET anns == GetAnnotations(record)[1]
         IN  IF \/ SortedRaises(GetAll(anns, "intent"))
                \/ SortedRaises(GetAll(anns, "urgency"))
             THEN [raised |-> "TypeError"]
             ELSE [raised |-> "",
                   conflict_reason |->
                       analyze_conflict([annotations |-> [i \in DOMAIN anns |-> Filled(anns[i])]])]

\* conflict_resolver.detect_conflict on a raw record: sorted(set(intents)) and
\* sorted(set(urgencies)) are always evaluated
cr_detect_conflict_json(sample) ==
    IF GetAnnotations(sample) = None
    THEN [raised |-> "TypeError"]
    ELSE LET anns == GetAnnotations(sample)[1]
             intent_conflict == Cardinality(GetAll(anns, "intent")) > 1
             urgency_conflict == Cardinality(GetAll(anns, "urgency")) > 1
         IN  IF \/ SortedRaises(GetAll(anns, "intent"))
                \/ SortedRaises(GetAll(anns, "urgency"))
             THEN [raised |-> "TypeError"]
             ELSE [raised |-> "",
                   is_conflict |-> intent_conflict \/ urgency_conflict,
                   intent_conflict |-> intent_conflict,
                   urgency_conflict |-> urgency_conflict]

\* what is left alone by a detector that is handed the raw record
DetectorFrame ==
    /\ pc' = "detected"
    /\ UNCHANGED <<text, annotations, dataset, conflicts_only, detailed_analysis,
                   pos, results, stats, output>>

\* process_dataset: json.loads(line), then analyze_sample, no validation
AnalyzeRaw ==
    /\ pc = "raw"
    /\ out' = [engine |-> "ConflictDetector",
               rec |-> analyze_sample_json(RawSample, detailed_analysis)]
    /\ DetectorFrame

\* core: load_jsonl, then is_conflict
LoadAndDetect ==
    /\ pc = "raw"
    /\ out' = [engine |-> "core", rec |-> core_is_conflict_json(RawSample)]
    /\ DetectorFrame

\* tickets_conflict.process_record, up to analyze_conflict
DetectAndAnalyze ==
    /\ pc = "raw"
    /\ out' = [engine |-> "tickets_conflict",
               rec |-> tc_detect_conflict_json(RawSample),
               analysis |-> analyze_conflict_json(RawSample)]
    /\ DetectorFrame

\* conflict_resolver.detect_conflict
DetectConflict ==
    /\ pc = "raw"
    /\ out' = [engine |-> "conflict_resolver", rec |-> cr_detect_conflict_json(RawSample)]
    /\ DetectorFrame

NextBoundary ==
    \/ ValidateDataset
    \/ AnalyzeAccepted
    \/ AnalyzeRaw
    \/ LoadAndDetect
    \/ DetectAndAnalyze
    \/ DetectConflict

SpecBoundary == InitBoundary /\ [][NextBoundary]_vars

(***************************************************************************)
(* conflict_detector.core on tickets whose category values are arbitrary   *)
(* strings: models.py puts no constraint on intent and urgency beyond str, *)
(* so a value may hold the character that Annotation.label joins with.     *)
(***************************************************************************)
VerbatimIntents == {"a", "a|b"}
VerbatimUrgencies == {"c", "b|c"}

VerbatimAnnotationLists ==
    UNION {{[i \in 1..k |-> [annotator |-> Annotator(i),
                             intent |-> f[i][1],
                             urgency |-> f[i][2]]] :
               f \in [1..k -> VerbatimIntents \X VerbatimUrgencies]} : k \in 0..MaxAnn}

InitVerbatim ==
    /\ text = ""
    /\ annotations \in VerbatimAnnotationLists
    /\ out = Idle
    /\ NoDataset

\* conflict_detector.core.is_conflict(ticket)
IsConflict ==
    /\ pc = "ticket"
    /\ out = Idle
    /\ out' = [engine |-> "core.is_conflict", rec |-> [is_conflict |-> core_is_conflict(Sample)]]
    /\ UNCHANGED <<text, annotations>>
    /\ UNCHANGED datasetVars

NextVerbatim == IsConflict

SpecVerbatim == InitVerbatim /\ [][NextVerbatim]_vars

(***************************************************************************)
(* One process, several resolver calls in a row.  What outlives a call is  *)
(* the ConflictDetector instance (detailed_analysis and its two lexicons,  *)
(* written by __init__ only), the module-level lexicons, and the tickets,  *)
(* which no resolver writes to; the Counters and the reasoning dict are    *)
(* locals of the call.  results is the list of the calls made so far.      *)
(***************************************************************************)
\* the tickets the calls are made on: the sample lines that hold a conflict
ConflictLines ==
    {line \in SampleLines :
        Cardinality({label(line.annotations[i]) : i \in DOMAIN line.annotations}) > 1}

\* a resolver that answers from the ticket of the call before
resolved_ticket_stale(calls, ticket) ==
    [id |-> "TEST-001",
     text |-> IF calls = <<>> THEN ticket.text ELSE calls[Len(calls)].ticket.text,
     annotations |-> IF calls = <<>> THEN ticket.annotations
                     ELSE calls[Len(calls)].ticket.annotations]

\* the ticket a call works on: its argument, whatever calls came before
resolved_ticket(calls, ticket) ==
    [id |-> "TEST-001", text |-> ticket.text, annotations |-> ticket.annotations]

\* ConflictDetector.suggest_resolution(labels, text, conflict_details) as
\* analyze_sample calls it
call_suggest_resolution(sample) ==
    suggest_resolution(extract_labels(sample.annotations), sample.text,
                       CD_detect_conflict(extract_labels(sample.annotations)).conflict_details)

InitCalls ==
    /\ text = ""
    /\ annotations = <<>>
    /\ out = Idle
    /\ dataset = <<>>
    /\ conflicts_only = FALSE
    /\ detailed_analysis = TRUE
    /\ pos = 0
    /\ results = <<>>
    /\ stats = InitStats
    /\ output = None
    /\ pc = "calls"

\* what a resolver call leaves alone: everything but the list of calls
CallFrame ==
    /\ pc = "calls"
    /\ Len(results) < MaxCalls
    /\ UNCHANGED <<text, annotations, out, dataset, conflicts_only, detailed_analysis,
                   pos, stats, output, pc>>

\* detector.suggest_resolution(...) on one more ticket
CallSuggestResolution ==
    /\ CallFrame
    /\ \E ticket \in ConflictLines :
          results' = Append(results,
                            [engine |-> "ConflictDetector", ticket |-> ticket,
                             rec |-> call_suggest_resolution(resolved_ticket(results, ticket))])

\* conflict_detector.core.suggest_label(ticket) on one more ticket
CallCoreSuggestLabel ==
    /\ CallFrame
    /\ \E ticket \in ConflictLines :
          results' = Append(results,
                            [engine |-> "core", ticket |-> ticket,
                             rec |-> core_suggest_label(resolved_ticket(results, ticket))])

\* tickets_conflict.logic.suggest_label(record) on one more ticket
CallSuggestLabel ==
    /\ CallFrame
    /\ \E ticket \in ConflictLines :
          results' = Append(results,
                            [engine |-> "tickets_conflict", ticket |-> ticket,
                             rec |-> tc_suggest_label(resolved_ticket(results, ticket))])

\* conflict_resolver.resolver.resolve(sample) on one more ticket
CallResolve ==
    /\ CallFrame
    /\ \E ticket \in ConflictLines :
          results' = Append(results,
                            [engine |-> "conflict_resolver", ticket |-> ticket,
                             rec |-> resolve(resolved_ticket(results, ticket))])

NextCalls ==
    \/ CallSuggestResolution
    \/ CallCoreSuggestLabel
    \/ CallSuggestLabel
    \/ CallResolve

SpecCalls == InitCalls /\ [][NextCalls]_vars

(***************************************************************************)
(* conflict_resolver.resolver.text_keyword_intent applied to one text.     *)
(***************************************************************************)
InitKeyword ==
    /\ text \in KeywordTexts
    /\ annotations = <<>>
    /\ out = Idle
    /\ NoDataset

\* text_keyword_intent(text)
TextKeywordIntent ==
    /\ pc = "ticket"
    /\ out = Idle
    /\ out' = [engine |-> "text_keyword_intent", rec |-> [intent |-> text_keyword_intent(text)]]
    /\ UNCHANGED <<text, annotations>>
    /\ UNCHANGED datasetVars

NextKeyword == TextKeywordIntent

SpecKeyword == InitKeyword /\ [][NextKeyword]_vars

(***************************************************************************)
(* ConflictDetector.suggest_resolution on a ticket and on the same ticket  *)
(* with its annotation list reordered.                                     *)
(***************************************************************************)
\* the bijections of 1..n
Reorderings(n) == {p \in [1..n -> 1..n] : \A i, j \in 1..n : p[i] = p[j] => i = j}

InitReordered ==
    /\ text \in Texts
    /\ annotations \in AnnotationLists \ {<<>>}
    /\ out = Idle
    /\ NoDataset

\* suggest_resolution(labels, text, conflict_details), once for the list as
\* given and once for a reordering of it
SuggestResolutionReordered ==
    /\ pc = "ticket"
    /\ out = Idle
    /\ \E p \in Reorderings(Len(annotations)) :
          out' = [engine |-> "suggest_resolution",
                  order |-> p,
                  rec |-> call_suggest_resolution(Sample),
                  reordered |->
                      call_suggest_resolution(
                          [Sample EXCEPT !.annotations =
                              [i \in DOMAIN annotations |-> annotations[p[i]]]])]
    /\ UNCHANGED <<text, annotations>>
    /\ UNCHANGED datasetVars

NextReordered == SuggestResolutionReordered

SpecReordered == InitReordered /\ [][NextReordered]_vars

(***************************************************************************)
(* src/main.py : main(), on a readable input file.  The arguments are      *)
(* --verbose, --validate-only, --conflicts-only and --no-details; the      *)
(* report of --report is written inside a try/except and does not change   *)
(* the exit code.                                                          *)
(***************************************************************************)
\* the records an input file is made of: a conflict, an agreement, a
\* conflict whose text is null, and a record without annotations
MainRecords ==
    { ValidSample,
      [id |-> "TEST-001",
       text |-> Some("App crashes during payment transaction."),
       annotations |-> Some(<<Ann(1, "bug_report", "high"), Ann(2, "bug_report", "high")>>)],
      [id |-> "TEST-002",
       text |-> None,
       annotations |-> Some(<<Ann(1, "billing_issue", "high"), Ann(2, "bug_report", "high")>>)],
      [id |-> "TEST-003", text |-> Some("")] }

\* the input files, the empty file included
MainDatasets == SeqsUpTo(MainRecords, MaxTickets)

\* process_dataset from the i-th line on: the stats it returns, or the
\* exception that analyze_sample raised
RECURSIVE process_from(_, _, _, _, _, _)
RECURSIVE process_line(_, _, _, _, _, _, _)
process_from(data, i, detailed, only_conflicts, st, res) ==
    IF i > Len(data)
    THEN [raised |-> "",
          stats |-> [st EXCEPT !.output_samples = Some(Len(res))]]
    ELSE process_line(data, i, detailed, only_conflicts, st, res,
                      analyze_sample_json(data[i], detailed))

process_line(data, i, detailed, only_conflicts, st, res, analysis) ==
    IF analysis.raised # ""
    THEN [raised |-> analysis.raised, stats |-> st]
    ELSE process_from(data, i + 1, detailed, only_conflicts,
                      count_sample(st, analysis),
                      add_result(res, analysis, only_conflicts))

\* ConflictDetector(detailed).process_dataset(input_path, output_path, conflicts_only)
process_dataset(data, detailed, only_conflicts) ==
    process_from(data, 1, detailed, only_conflicts, InitStats, <<>>)

\* validate_dataset: load_dataset, then validate_dataset_format
validate_dataset(data) == validate_dataset_format(data).ok

\* main, after process_dataset returned: the statistics are printed, with
\* generate_statistics_summary (calculate_percentage) when verbose, with
\* stats['conflict_samples']/stats['total_samples']*100 otherwise
print_statistics(args, processed) ==
    IF processed.raised # ""
    THEN [raised |-> "", exit |-> Some(1)]
    ELSE IF ~args.verbose /\ processed.stats.total_samples = 0
    THEN [raised |-> "ZeroDivisionError", exit |-> None]
    ELSE [raised |-> "", exit |-> Some(0)]

\* main: the exit code it returns, or the exception that leaves it
main(args, data) ==
    IF ~validate_dataset(data)
    THEN [raised |-> "", exit |-> Some(1)]
    ELSE IF args.validate_only
    THEN [raised |-> "", exit |-> Some(0)]
    ELSE print_statistics(args, process_dataset(data, ~args.no_details, args.conflicts_only))

InitMain ==
    /\ text = ""
    /\ annotations = <<>>
    /\ out \in {[engine |-> "argv", args |-> a] :
                   a \in [verbose : BOOLEAN, validate_only : BOOLEAN,
                          conflicts_only : BOOLEAN, no_details : BOOLEAN]}
    /\ dataset \in MainDatasets
    /\ conflicts_only = out.args.conflicts_only
    /\ detailed_analysis = ~out.args.no_details
    /\ pos = 0
    /\ results = <<>>
    /\ stats = InitStats
    /\ output = None
    /\ pc = "main"

\* main()
Main ==
    /\ pc = "main"
    /\ out.engine = "argv"
    /\ out' = [engine |-> "main", args |-> out.args, rec |-> main(out.args, dataset)]
    /\ pc' = "exit"
    /\ UNCHANGED <<text, annotations, dataset, conflicts_only, detailed_analysis,
                   pos, results, stats, output>>

NextMain == Main

SpecMain == InitMain /\ [][NextMain]_vars

(***************************************************************************)
(* What the model reads off a state.                                       *)
(***************************************************************************)
DistinctIntents == {annotations[i].intent : i \in DOMAIN annotations}
DistinctUrgencies == {annotations[i].urgency : i \in DOMAIN annotations}
IntentConflict == Cardinality(DistinctIntents) > 1
UrgencyConflict == Cardinality(DistinctUrgencies) > 1
Unanimous == annotations # <<>> /\ ~IntentConflict /\ ~UrgencyConflict

\* the pipeline that ran, and whether it returned
RanCD == out.engine = "ConflictDetector"
ReturnedCD == RanCD /\ out.rec.raised = ""
RanCore == out.engine = "core"
ReturnedCore == RanCore /\ out.rec.raised = ""
RanTC == out.engine = "tickets_conflict"
RanCR == out.engine = "conflict_resolver"

\* the number of annotations that carry value v in a field
Votes(field, v) == Cardinality({i \in DOMAIN annotations : annotations[i][field] = v})
\* the values of a field with the most votes
Winners(field) ==
    {annotations[i][field] : i \in {j \in DOMAIN annotations :
        \A k \in DOMAIN annotations :
            Votes(field, annotations[k][field]) <= Votes(field, annotations[j][field])}}

\* the member of S that comes first in a priority list
FirstIn(priority, S) ==
    priority[CHOOSE i \in DOMAIN priority :
                priority[i] \in S /\ \A j \in 1..(i - 1) : priority[j] \notin S]

NonEmptyString(o) == o # None /\ o[1] # ""

(***************************************************************************)
(* C1: ConflictDetector.detect_conflict and conflict_resolver's            *)
(* detect_conflict report an intent conflict exactly when the annotations  *)
(* carry more than one distinct intent, an urgency conflict exactly when   *)
(* they carry more than one distinct urgency, and is_conflict is the OR of *)
(* the two.                                                                *)
(***************************************************************************)
C1_IsConflictIsOr ==
    /\ RanCD =>
         LET d == out.rec.detected
         IN  /\ d.conflict_details.has_intent_conflict <=> IntentConflict
             /\ d.conflict_details.has_urgency_conflict <=> UrgencyConflict
             /\ d.is_conflict <=> (IntentConflict \/ UrgencyConflict)
    /\ RanCR =>
         LET d == out.rec.detected
         IN  /\ d.intent_conflict <=> IntentConflict
             /\ d.urgency_conflict <=> UrgencyConflict
             /\ d.is_conflict <=> (IntentConflict \/ UrgencyConflict)

\* a conflict on one dimension only, reported as a conflict
C1_Witness ==
    /\ RanCD
    /\ IntentConflict /\ ~UrgencyConflict
    /\ out.rec.detected.is_conflict

(***************************************************************************)
(* C2: a ticket with exactly one annotation is never a conflict, for any   *)
(* of the four detectors and any intent, urgency and text.                 *)
(***************************************************************************)
C2_SingleAnnotationNoConflict ==
    Len(annotations) = 1 =>
        /\ RanCD => ~out.rec.detected.is_conflict /\ ~out.rec.is_conflict
        /\ RanCore =>
             /\ \A i \in DOMAIN out.rec.outputs : ~out.rec.outputs[i].is_conflict
             /\ out.only_conflicts => out.rec.outputs = <<>>
        /\ RanTC => ~out.rec.is_conflict
        /\ RanCR => ~out.rec.is_conflict

\* core's is_conflict answered for a single annotation
C2_Witness ==
    /\ Len(annotations) = 1
    /\ RanCore /\ ~out.only_conflicts
    /\ Len(out.rec.outputs) = 1
    /\ ~out.rec.outputs[1].is_conflict

(***************************************************************************)
(* C3: when all annotations (at least one) share intent and urgency, the   *)
(* ticket is not a conflict and the suggested label is that pair with      *)
(* confidence 1.0, for every text: ConflictDetector reports 1.0 for both   *)
(* dimensions, core for the label, tickets_conflict confidence "high".     *)
(***************************************************************************)
C3_UnanimousLabelKept ==
    Unanimous =>
        LET unanimous == annotations[1].intent \o "|" \o annotations[1].urgency
        IN  /\ RanCD =>
                 /\ ~out.rec.is_conflict
                 /\ out.rec.suggested_label = Some(unanimous)
                 /\ out.rec.resolution_reasoning.intent_confidence = 100
                 /\ out.rec.resolution_reasoning.urgency_confidence = 100
            /\ (RanCore /\ ~out.only_conflicts) =>
                 /\ Len(out.rec.outputs) = 1
                 /\ ~out.rec.outputs[1].is_conflict
                 /\ out.rec.outputs[1].suggested_label = Some(unanimous)
                 /\ out.rec.outputs[1].resolution[1].confidence = 1000
            /\ RanTC =>
                 /\ ~out.rec.is_conflict
                 /\ out.rec.suggested_label[1].intent = Some(annotations[1].intent)
                 /\ out.rec.suggested_label[1].urgency = Some(annotations[1].urgency)
                 /\ out.rec.suggested_label[1].confidence = "high"

\* several annotators agree on a lower urgency, the text names a crash and
\* a payment
C3_Witness ==
    /\ Unanimous /\ Len(annotations) >= 2
    /\ annotations[1].urgency = "medium"
    /\ InLower("crash", text) /\ InLower("payment", text)
    /\ ReturnedCD
    /\ out.rec.suggested_label = Some(annotations[1].intent \o "|medium")

(***************************************************************************)
(* C4: when exactly two values tie for the most votes of a dimension and   *)
(* the text holds no keyword of that dimension, the resolved value is the  *)
(* tied value that comes first in the priority ordering.                   *)
(* Stated for tickets_conflict.suggest_label, ConflictDetector and         *)
(* conflict_resolver.                                                      *)
(***************************************************************************)
TwoWayTie(field) == Cardinality(Winners(field)) = 2

C4_TieBrokenByPriority ==
    /\ (RanTC /\ TwoWayTie("intent") /\ TextVotes[text].intent = <<>>) =>
          out.rec.suggested_label[1].intent
            = Some(FirstIn(INTENT_PRIORITY, Winners("intent")))
    /\ (RanTC /\ TwoWayTie("urgency") /\ TextVotes[text].urgency = <<>>) =>
          out.rec.suggested_label[1].urgency
            = Some(FirstIn(URGENCY_PRIORITY, Winners("urgency")))
    /\ (ReturnedCD /\ TwoWayTie("intent")
          /\ ~AnyIn(CD_failure_words \o CD_payment_words \o CD_subscription_words, text)) =>
          SplitLabel[out.rec.suggested_label[1]][1]
            = FirstIn(INTENT_PRIORITY, Winners("intent"))
    /\ (RanCR /\ out.rec.is_conflict /\ TwoWayTie("intent")
          /\ text_keyword_intent(text) = "ambiguous") =>
          out.rec.suggested_label_details[1].final_intent
            = FirstIn(INTENT_PRIORITY, Winners("intent"))

(***************************************************************************)
(* C5: whenever the text contains both "crash" and "payment",              *)
(* ConflictDetector.suggest_resolution returns urgency critical, whatever  *)
(* the votes and whatever else the text contains.                          *)
(***************************************************************************)
C5_CrashPaymentForcesCritical ==
    (ReturnedCD /\ InLower("crash", text) /\ InLower("payment", text)) =>
        SplitLabel[out.rec.suggested_label[1]][2] = "critical"

(***************************************************************************)
(* C6: ConflictDetector.suggest_resolution overrides nothing silently: a   *)
(* suggested intent that differs from reasoning.majority_intent comes with *)
(* a "Contextual analysis:" clause, a suggested urgency that differs from  *)
(* reasoning.majority_urgency with an "Urgency analysis:" clause, and the  *)
(* two majority fields hold values with the most votes.                    *)
(***************************************************************************)
C6_NoSilentOverride ==
    ReturnedCD =>
        LET r == out.rec.resolution_reasoning
            suggested == SplitLabel[out.rec.suggested_label[1]]
        IN  /\ suggested[1] # r.majority_intent =>
                 Contains("Contextual analysis:", r.explanation)
            /\ suggested[2] # r.majority_urgency =>
                 Contains("Urgency analysis:", r.explanation)
            /\ r.majority_intent \in Winners("intent")
            /\ r.majority_urgency \in Winners("urgency")

\* both the intent and the urgency were overridden
C6_Witness ==
    /\ ReturnedCD
    /\ SplitLabel[out.rec.suggested_label[1]][1] # out.rec.resolution_reasoning.majority_intent
    /\ SplitLabel[out.rec.suggested_label[1]][2] # out.rec.resolution_reasoning.majority_urgency

(***************************************************************************)
(* C7: for a ticket its own detector calls a conflict, the cause analyzer  *)
(* of ConflictDetector, of core and of tickets_conflict returns a string   *)
(* that is neither empty nor None.                                         *)
(***************************************************************************)
C7_CauseNeverEmpty ==
    /\ (ReturnedCD /\ out.rec.detected.is_conflict) =>
          NonEmptyString(out.rec.conflict_reason)
    /\ ReturnedCore =>
          \A i \in DOMAIN out.rec.outputs :
              out.rec.outputs[i].is_conflict =>
                  NonEmptyString(out.rec.outputs[i].conflict_reason)
    /\ (RanTC /\ out.rec.is_conflict) => NonEmptyString(out.rec.conflict_reason)

\* tickets_conflict explains a conflict on one dimension
C7_Witness ==
    /\ RanTC
    /\ out.rec.is_conflict
    /\ Cardinality(DistinctIntents) = 2 /\ ~UrgencyConflict
    /\ NonEmptyString(out.rec.conflict_reason)

(***************************************************************************)
(* C8: in every output record of the four pipelines conflict_reason is     *)
(* None exactly when is_conflict is false, and a non-empty string exactly  *)
(* when is_conflict is true.                                               *)
(***************************************************************************)
ReasonMatchesConflict(record) ==
    /\ record.conflict_reason = None <=> ~record.is_conflict
    /\ NonEmptyString(record.conflict_reason) <=> record.is_conflict

C8_ReasonIffConflict ==
    /\ ReturnedCD => ReasonMatchesConflict(out.rec)
    /\ ReturnedCore =>
          \A i \in DOMAIN out.rec.outputs : ReasonMatchesConflict(out.rec.outputs[i])
    /\ RanTC => ReasonMatchesConflict(out.rec)
    /\ RanCR => ReasonMatchesConflict(out.rec)

\* a record without conflict, built by analyze_sample, carries no reason
C8_Witness ==
    /\ ReturnedCD
    /\ ~out.rec.is_conflict
    /\ out.rec.conflict_reason = None

(***************************************************************************)
(* C9: for every ticket with at least one annotation, conflicting or not,  *)
(* the record built by each of the four pipelines has a suggested_label    *)
(* that is not None.                                                       *)
(***************************************************************************)
C9_SuggestedLabelAlwaysPresent ==
    annotations # <<>> =>
        /\ ReturnedCD => out.rec.suggested_label # None
        /\ ReturnedCore =>
              \A i \in DOMAIN out.rec.outputs : out.rec.outputs[i].suggested_label # None
        /\ RanTC => out.rec.suggested_label # None
        /\ RanCR => out.rec.suggested_label # None

(***************************************************************************)
(* C10: process_dataset reports total_samples = N and conflict_samples = K *)
(* for an input of N tickets of which K conflict; with conflicts_only it   *)
(* writes exactly the K conflicting records, in input order, without it    *)
(* all N records, and output_samples is the number written.                *)
(***************************************************************************)
ConflictingLines ==
    {i \in DOMAIN dataset :
        LET anns == dataset[i].annotations
        IN  \/ Cardinality({anns[j].intent : j \in DOMAIN anns}) > 1
            \/ Cardinality({anns[j].urgency : j \in DOMAIN anns}) > 1}

\* the ids of the lines of wanted, in input order
RECURSIVE IdsOf(_, _)
IdsOf(i, wanted) ==
    IF i > Len(dataset) THEN <<>>
    ELSE (IF i \in wanted THEN <<dataset[i].id>> ELSE <<>>) \o IdsOf(i + 1, wanted)

C10_ConflictsOnlyOutput ==
    pc = "done" =>
        LET written == output[1]
            expected == IF conflicts_only THEN ConflictingLines ELSE DOMAIN dataset
        IN  /\ stats.total_samples = Len(dataset)
            /\ stats.conflict_samples = Cardinality(ConflictingLines)
            /\ stats.output_samples = Some(Cardinality(expected))
            /\ [i \in DOMAIN written |-> written[i].id] = IdsOf(1, expected)
            /\ \A i \in DOMAIN written : conflicts_only => written[i].is_conflict

\* a filtered run over a file that mixes conflicting and agreeing tickets
C10_Witness ==
    /\ pc = "done"
    /\ conflicts_only
    /\ Len(dataset) = 3
    /\ Cardinality(ConflictingLines) = 2
    /\ Len(output[1]) = 2

(***************************************************************************)
(* C11: after process_dataset, with either value of detailed_analysis and  *)
(* of conflicts_only, total_samples = conflict_samples +                   *)
(* no_conflict_samples and the intent-only, urgency-only and both-conflict *)
(* counts add up to conflict_samples.                                      *)
(***************************************************************************)
C11_CountersConsistent ==
    pc = "done" =>
        /\ stats.total_samples = stats.conflict_samples + stats.no_conflict_samples
        /\ stats.conflict_samples =
              (stats.intent_conflicts - stats.both_conflicts)
              + (stats.urgency_conflicts - stats.both_conflicts)
              + stats.both_conflicts

(***************************************************************************)
(* C13: for a ticket with an empty annotation list every pipeline entry    *)
(* point returns, without raising, a record with is_conflict = false.      *)
(***************************************************************************)
C13_EmptyAnnotationsNoError ==
    annotations = <<>> =>
        /\ RanCD => out.rec.raised = "" /\ ~out.rec.is_conflict
        /\ (RanCore /\ ~out.only_conflicts) =>
              /\ out.rec.raised = ""
              /\ Len(out.rec.outputs) = 1
              /\ ~out.rec.outputs[1].is_conflict
        /\ RanTC => ~out.rec.is_conflict
        /\ RanCR => ~out.rec.is_conflict

(***************************************************************************)
(* C14: when the annotations agree on the intent and split on the urgency, *)
(* the suggested intent is the unanimous one for every text, in all four   *)
(* resolvers; ConflictDetector reports intent confidence 1.0 and consults  *)
(* no intent keyword rule, conflict_resolver reports "high" for the        *)
(* intent.                                                                 *)
(***************************************************************************)
C14_UnanimousIntentKept ==
    (annotations # <<>> /\ ~IntentConflict /\ UrgencyConflict) =>
        LET unanimous == annotations[1].intent
        IN  /\ ReturnedCD =>
                 /\ SplitLabel[out.rec.suggested_label[1]][1] = unanimous
                 /\ out.rec.resolution_reasoning.intent_confidence = 100
                 /\ out.rec.resolution_reasoning.contextual_adjustment = None
                 /\ ~Contains("Contextual analysis:",
                              out.rec.resolution_reasoning.explanation)
            /\ (ReturnedCore /\ ~out.only_conflicts) =>
                 SplitLabel[out.rec.outputs[1].suggested_label[1]][1] = unanimous
            /\ RanTC => out.rec.suggested_label[1].intent = Some(unanimous)
            /\ RanCR =>
                 /\ out.rec.suggested_label_details[1].final_intent = unanimous
                 /\ out.rec.suggested_label_details[1].intent_confidence = "high"

\* a 2:1 split on urgency, one intent, and a text with keywords of that intent
C14_Witness ==
    /\ ReturnedCD
    /\ Len(annotations) = 3
    /\ ~IntentConflict /\ Cardinality(DistinctUrgencies) = 2
    /\ annotations[1].intent = "bug_report"
    /\ AnyIn(CD_failure_words, text)
    /\ out.rec.resolution_reasoning.urgency_confidence = 67
    /\ SplitLabel[out.rec.suggested_label[1]][1] = "bug_report"

(***************************************************************************)
(* C16: in conflict_resolver the confidence of a dimension depends on the  *)
(* vote share s = top_count / total alone: "high" exactly when s >= 0.66,  *)
(* "medium" exactly when 0.5 <= s < 0.66, "low" exactly when s < 0.5.      *)
(***************************************************************************)
TopVotes(field) == Max({Votes(field, annotations[i][field]) : i \in DOMAIN annotations})

Band(field) ==
    IF 100 * TopVotes(field) >= 66 * Len(annotations) THEN "high"
    ELSE IF 2 * TopVotes(field) >= Len(annotations) THEN "medium"
    ELSE "low"

C16_ConfidenceBands ==
    (RanCR /\ out.rec.is_conflict) =>
        /\ out.rec.suggested_label_details[1].intent_confidence = Band("intent")
        /\ out.rec.suggested_label_details[1].urgency_confidence = Band("urgency")

(***************************************************************************)
(* C17: when the most-voted intent holds at least 0.6 of the votes,        *)
(* ConflictDetector.suggest_resolution returns it whatever the text; the   *)
(* annotations (billing_issue, high), (bug_report, critical),              *)
(* (billing_issue, high) on "I want a refund but the app crashed." are a   *)
(* conflict on both dimensions resolved to billing_issue|high.             *)
(***************************************************************************)
RefundCrashTicket ==
    /\ text = "I want a refund but the app crashed."
    /\ [i \in DOMAIN annotations |-> <<annotations[i].intent, annotations[i].urgency>>]
         = << <<"billing_issue", "high">>, <<"bug_report", "critical">>,
              <<"billing_issue", "high">> >>

C17_StrongMajorityKept ==
    ReturnedCD =>
        /\ 10 * TopVotes("intent") >= 6 * Len(annotations) =>
              /\ Winners("intent") = {SplitLabel[out.rec.suggested_label[1]][1]}
              /\ out.rec.resolution_reasoning.majority_intent
                   = SplitLabel[out.rec.suggested_label[1]][1]
        /\ RefundCrashTicket =>
              /\ out.rec.detected.conflict_details.has_intent_conflict
              /\ out.rec.detected.conflict_details.has_urgency_conflict
              /\ out.rec.suggested_label = Some("billing_issue|high")

\* the ticket of the example, analysed
C17_Witness ==
    /\ ReturnedCD
    /\ RefundCrashTicket
    /\ out.rec.is_conflict
    /\ out.rec.resolution_reasoning.contextual_adjustment
         = Some("Technical failure keywords suggest bug_report")

(***************************************************************************)
(* C20: in tickets_conflict.suggest_label the confidence depends on the    *)
(* votes only: "high" exactly when there is no conflict, "low" exactly     *)
(* when the most-voted intent or urgency is tied with another value,       *)
(* "medium" exactly when there is a conflict and no tie.                   *)
(***************************************************************************)
Tied(field) == Cardinality(Winners(field)) > 1

C20_ConfidenceFromVotes ==
    RanTC =>
        LET confidence == out.rec.suggested_label[1].confidence
            conflict == IntentConflict \/ UrgencyConflict
            tie == Tied("intent") \/ Tied("urgency")
        IN  /\ confidence = "high" <=> ~conflict
            /\ confidence = "low" <=> tie
            /\ confidence = "medium" <=> (conflict /\ ~tie)

\* a tie that the keywords of the text resolve against the first-listed value
C20_Witness ==
    /\ RanTC
    /\ Tied("intent")
    /\ out.rec.suggested_label[1].intent # out.rec.suggested_label[1].majority_label.intent
    /\ out.rec.suggested_label[1].confidence = "low"

(***************************************************************************)
(* C12: detection has no error conditions.  For a ticket in which some     *)
(* annotation lacks the intent or the urgency field, no detector raises,   *)
(* and the absent value counts as a group of its own: the ticket is a      *)
(* conflict exactly when a dimension holds more than one distinct value,   *)
(* absent included.                                                        *)
(***************************************************************************)
LacksLabelField(sample) ==
    /\ SampleKeys \subseteq DOMAIN sample
    /\ sample.text # None
    /\ sample.annotations # None
    /\ \A i \in DOMAIN sample.annotations[1] : "annotator" \in DOMAIN sample.annotations[1][i]
    /\ \E i \in DOMAIN sample.annotations[1] :
          ~({"intent", "urgency"} \subseteq DOMAIN sample.annotations[1][i])

C12_MissingFieldIsItsOwnGroup ==
    (pc = "detected" /\ LacksLabelField(RawSample)) =>
        LET anns == RawSample.annotations[1]
            intent_conflict == Cardinality(GetAll(anns, "intent")) > 1
            urgency_conflict == Cardinality(GetAll(anns, "urgency")) > 1
        IN  /\ out.rec.raised = ""
            /\ out.rec.is_conflict <=> (intent_conflict \/ urgency_conflict)
            /\ out.engine = "tickets_conflict" => out.analysis.raised = ""
            /\ out.engine = "conflict_resolver" =>
                  /\ out.rec.intent_conflict <=> intent_conflict
                  /\ out.rec.urgency_conflict <=> urgency_conflict

(***************************************************************************)
(* C19: validate_dataset_format rejects a dataset exactly when some record *)
(* lacks id, text or annotations, or its annotations is not a list or is   *)
(* an empty list, or some annotation lacks annotator, intent or urgency;   *)
(* and every record of an accepted dataset is processed by analyze_sample  *)
(* without raising.                                                        *)
(***************************************************************************)
Malformed(sample) ==
    \/ \E key \in SampleKeys : key \notin DOMAIN sample
    \/ sample.annotations = None
    \/ sample.annotations[1] = <<>>
    \/ \E i \in DOMAIN sample.annotations[1] :
          \E key \in AnnotationKeys : key \notin DOMAIN sample.annotations[1][i]

C19_ValidationGuardsEngine ==
    /\ out.engine = "validate_dataset_format" =>
          /\ out.rec.ok <=> \A i \in DOMAIN dataset : ~Malformed(dataset[i])
          /\ ~out.rec.ok => out.rec.message # ""
    /\ pc = "analysed" => \A i \in DOMAIN results : results[i].raised = ""

(***************************************************************************)
(* C18: core.is_conflict, which compares the serialized labels             *)
(* "<intent>|<urgency>", is true exactly when the annotations hold more    *)
(* than one distinct intent or more than one distinct urgency, whatever    *)
(* strings the intents and urgencies are.                                  *)
(***************************************************************************)
C18_CompositeLabelAgrees ==
    out.engine = "core.is_conflict" =>
        (out.rec.is_conflict <=> (IntentConflict \/ UrgencyConflict))

IntentHits ==
    [t \in Texts |->
        [c \in {tc_INTENT_KEYWORDS[i][1] : i \in DOMAIN tc_INTENT_KEYWORDS} |->
            LET kws == tc_INTENT_KEYWORDS[CHOOSE i \in DOMAIN tc_INTENT_KEYWORDS :
                                             tc_INTENT_KEYWORDS[i][1] = c][2]
            IN  Cardinality({k \in DOMAIN kws : Contains(kws[k], Lower(t))})]]

\* the value of a field that Counter.most_common puts first
RawMajority(field) ==
    annotations[CHOOSE i \in DOMAIN annotations :
                   /\ annotations[i][field] \in Winners(field)
                   /\ \A j \in 1..(i - 1) : annotations[j][field] \notin Winners(field)][field]

C21_KeywordFallback ==
    (RanTC /\ Tied("intent")) =>
        LET hits == IntentHits[text]
            best == Max({hits[c] : c \in DOMAIN hits})
            chosen == out.rec.suggested_label[1].intent[1]
        IN  IF best = 0
            THEN chosen = RawMajority("intent")
            ELSE /\ chosen \in DOMAIN hits
                 /\ hits[chosen] = best
                 /\ chosen = FirstIn(INTENT_PRIORITY, {c \in DOMAIN hits : hits[c] = best})

\* an intent tie is resolved to a category nobody voted for, which has more
\* hits than a category earlier in the priority list
C21_Witness ==
    /\ RanTC
    /\ Tied("intent")
    /\ out.rec.suggested_label[1].intent = Some("billing_issue")
    /\ "billing_issue" \notin DistinctIntents
    /\ IntentHits[text]["bug_report"] > 0

(***************************************************************************)
(* C22: when one composite label is held by more than half of the          *)
(* annotators, conflict_detector.core.suggest_label returns that label,    *)
(* whatever keyword cues the text contains.                                *)
(***************************************************************************)
\* the composite labels held by more than half of the annotators
StrictMajorityLabels ==
    {l \in {label(annotations[i]) : i \in DOMAIN annotations} :
        2 * Cardinality({i \in DOMAIN annotations : label(annotations[i]) = l})
            > Len(annotations)}

C22_StrictMajorityLabelKept ==
    (ReturnedCore /\ out.rec.outputs # <<>>) =>
        \A l \in StrictMajorityLabels : out.rec.outputs[1].suggested_label = Some(l)

(***************************************************************************)
(* C23: in analyze_conflict_cause the ambiguous-keyword clause fires       *)
(* exactly when the lower-cased text contains a phrase of the ambiguous    *)
(* lexicon and a category mapped to that phrase is among the annotated     *)
(* intents, whatever the other clauses do, and the clause lists exactly    *)
(* the phrases that satisfy both conditions.                               *)
(***************************************************************************)
StartsWith(s, prefix) == Len(prefix) <= Len(s) /\ SubSeq(s, 1, Len(prefix)) = prefix

\* the phrases of the ambiguous lexicon and the categories each is mapped to
AmbiguousLexicon ==
    << <<"network error", {"billing_issue", "bug_report"}>>,
       <<"payment failed", {"billing_issue", "bug_report"}>>,
       <<"app crashed", {"bug_report", "billing_issue"}>>,
       <<"app shows error", {"bug_report", "account_issue"}>>,
       <<"subscription", {"subscription_issue", "billing_issue"}>>,
       <<"cancel", {"subscription_issue", "account_issue"}>>,
       <<"locked", {"account_issue", "bug_report"}>> >>

\* per text, the positions of the phrases that occur in the lower-cased text
PhrasesIn ==
    [t \in Texts |-> {i \in DOMAIN AmbiguousLexicon : Contains(AmbiguousLexicon[i][1], Lower(t))}]

\* the phrases that occur in the text and are mapped to an annotated intent
AmbiguousPhrases ==
    LET hit == SelectSeq([i \in DOMAIN AmbiguousLexicon |-> i],
                         LAMBDA i : /\ i \in PhrasesIn[text]
                                    /\ AmbiguousLexicon[i][2] \cap DistinctIntents # {})
    IN  [k \in DOMAIN hit |-> AmbiguousLexicon[hit[k]][1]]

C23_AmbiguousClause ==
    (ReturnedCD /\ out.rec.is_conflict) =>
        LET reason == out.rec.conflict_reason[1]
        IN  /\ StartsWith(reason, "Ambiguous text:") <=> AmbiguousPhrases # <<>>
            /\ AmbiguousPhrases # <<>> =>
                  StartsWith(reason,
                             "Ambiguous text: Contains terms like '"
                             \o Join(AmbiguousPhrases, ", ")
                             \o "' which can be interpreted as multiple intent types")

\* two phrases occur and are listed, on a ticket with a conflict on urgency only
C23_Witness ==
    /\ ReturnedCD
    /\ out.rec.is_conflict
    /\ Len(AmbiguousPhrases) = 2
    /\ StartsWith(out.rec.conflict_reason[1],
                  "Ambiguous text: Contains terms like 'network error, payment failed'")
    /\ ~IntentConflict

\* a phrase occurs in the text, no category mapped to it is among the
\* intents, and the clause is absent
C23_WitnessAbsent ==
    /\ ReturnedCD
    /\ out.rec.is_conflict
    /\ PhrasesIn[text] # {}
    /\ AmbiguousPhrases = <<>>
    /\ ~StartsWith(out.rec.conflict_reason[1], "Ambiguous text:")

(***************************************************************************)
(* C24: the explanation of ConflictDetector.suggest_resolution holds a     *)
(* "Contextual analysis:" clause only if the suggested intent differs from *)
(* the raw majority intent, and an "Urgency analysis:" clause only if the  *)
(* suggested urgency differs from the raw majority urgency.                *)
(***************************************************************************)
EndsWith(s, suffix) ==
    Len(suffix) <= Len(s) /\ SubSeq(s, Len(s) - Len(suffix) + 1, Len(s)) = suffix

C24_OverrideReported ==
    ReturnedCD =>
        LET explanation == out.rec.resolution_reasoning.explanation
            suggested == out.rec.suggested_label[1]
        IN  /\ Contains("Contextual analysis:", explanation) =>
                  ~StartsWith(suggested, RawMajority("intent") \o "|")
            /\ Contains("Urgency analysis:", explanation) =>
                  ~EndsWith(suggested, "|" \o RawMajority("urgency"))

(***************************************************************************)
(* C25: conflict_resolver.text_keyword_intent maps a text equal to a key k *)
(* of KEYWORD_INTENT_MAP to KEYWORD_INTENT_MAP[k], so that the most        *)
(* specific matching phrase decides (a text containing "payment page"      *)
(* yields bug_report), and maps a text containing no key to "ambiguous".   *)
(***************************************************************************)
C25_BestKeywordMatch ==
    out.engine = "text_keyword_intent" =>
        /\ \A i \in DOMAIN KEYWORD_INTENT_MAP :
              text = KEYWORD_INTENT_MAP[i][1] => out.rec.intent = KEYWORD_INTENT_MAP[i][2]
        /\ Contains("payment page", Lower(text)) => out.rec.intent = "bug_report"
        /\ (\A i \in DOMAIN KEYWORD_INTENT_MAP : ~Contains(KEYWORD_INTENT_MAP[i][1], Lower(text)))
              => out.rec.intent = "ambiguous"

(***************************************************************************)
(* C26: for every conflicting ticket exactly one of the urgency-variance   *)
(* clause and the intent-disagreement clause of analyze_conflict_cause     *)
(* fires: urgency-variance exactly when there is an urgency conflict and   *)
(* no intent conflict, intent-disagreement exactly when there is an intent *)
(* conflict; the fallback "Subjective interpretation" clause is never      *)
(* emitted for a ticket on which detect_conflict reported a conflict.      *)
(***************************************************************************)
C26_OneDisagreementClause ==
    (ReturnedCD /\ out.rec.is_conflict) =>
        LET reason == out.rec.conflict_reason[1]
            urgency_varies == Contains("Urgency assessment varies:", reason)
            intent_disagreement ==
                \/ Contains("Intent classification ambiguity:", reason)
                \/ Contains("Intent disagreement:", reason)
        IN  /\ urgency_varies <=> (UrgencyConflict /\ ~IntentConflict)
            /\ intent_disagreement <=> IntentConflict
            /\ urgency_varies # intent_disagreement
            /\ ~Contains("Subjective interpretation", reason)

\* a conflict on both dimensions is explained by the intent clause alone
C26_Witness ==
    /\ ReturnedCD
    /\ out.rec.is_conflict
    /\ IntentConflict /\ UrgencyConflict
    /\ Contains("Intent disagreement:", out.rec.conflict_reason[1])
    /\ ~Contains("Urgency assessment varies:", out.rec.conflict_reason[1])

(***************************************************************************)
(* C27: the result of ConflictDetector.suggest_resolution depends only on  *)
(* the multiset of annotations and the text: for every permutation of the  *)
(* annotation list the suggested label and the reported raw majority       *)
(* (majority_intent, majority_urgency) are the same, ties included.        *)
(***************************************************************************)
C27_OrderIndependent ==
    out.engine = "suggest_resolution" =>
        /\ out.rec.suggested_label = out.reordered.suggested_label
        /\ out.rec.reasoning.majority_intent = out.reordered.reasoning.majority_intent
        /\ out.rec.reasoning.majority_urgency = out.reordered.reasoning.majority_urgency

(***************************************************************************)
(* C28: the keyword-based urgency adjustment of ConflictDetector's         *)
(* suggest_resolution never lowers severity: in the order low < medium <   *)
(* high < critical the suggested urgency is at least as severe as the raw  *)
(* majority urgency, for every vote pattern and every text.                *)
(***************************************************************************)
Severity == [low |-> 1, medium |-> 2, high |-> 3, critical |-> 4]

C28_UrgencyNeverLowered ==
    ReturnedCD =>
        \E u \in DOMAIN Severity :
            /\ EndsWith(out.rec.suggested_label[1], "|" \o u)
            /\ Severity[u] >= Severity[RawMajority("urgency")]

(***************************************************************************)
(* C29: for every ticket with at least one annotation, core.suggest_label  *)
(* returns a composite label that some annotator assigned, the confidence  *)
(* is that label's share of the annotations rounded to 3 decimals, a value *)
(* in (0,1], the confidence is 1.0 exactly when the ticket is no conflict, *)
(* and the explanation holds "Adjusted by text cues" exactly when the      *)
(* returned label differs from Resolution.majority_label.                  *)
(***************************************************************************)
\* the number of annotations that carry the composite label l
LabelVotes(l) == Cardinality({i \in DOMAIN annotations : label(annotations[i]) = l})

\* the absolute value
Abs(x) == IF x < 0 THEN -x ELSE x

C29_ConfidenceIsShare ==
    (ReturnedCore /\ out.rec.outputs # <<>>) =>
        LET suggested == out.rec.outputs[1].suggested_label[1]
            resolution == out.rec.outputs[1].resolution[1]
            n == Len(annotations)
        IN  /\ LabelVotes(suggested) >= 1
            \* confidence, in thousandths, is the nearest to 1000 * votes / n
            /\ 2 * Abs(resolution.confidence * n - 1000 * LabelVotes(suggested)) <= n
            /\ resolution.confidence > 0 /\ resolution.confidence <= 1000
            /\ resolution.confidence = 1000 <=> ~(IntentConflict \/ UrgencyConflict)
            /\ Contains("Adjusted by text cues", resolution.explanation)
                  <=> suggested # resolution.majority_label

\* text cues move the suggestion away from the majority label, and the
\* confidence is the share of the suggested label
C29_Witness ==
    /\ ReturnedCore
    /\ out.rec.outputs # <<>>
    /\ Len(annotations) = 3
    /\ out.rec.outputs[1].suggested_label[1] # out.rec.outputs[1].resolution[1].majority_label
    /\ LabelVotes(out.rec.outputs[1].resolution[1].majority_label) = 2
    /\ out.rec.outputs[1].resolution[1].confidence = 333
    /\ Contains("Adjusted by text cues", out.rec.outputs[1].resolution[1].explanation)

(***************************************************************************)
(* C30: main() never raises on a readable input file: for every input that *)
(* passes validate_dataset_format, a file with zero records included, it   *)
(* runs to completion and returns exit code 0 or 1.                        *)
(***************************************************************************)
C30_MainNeverRaises ==
    (out.engine = "main" /\ \A i \in DOMAIN dataset : ~Malformed(dataset[i])) =>
        /\ out.rec.raised = ""
        /\ out.rec.exit \in {Some(0), Some(1)}

====
